---- MODULE Spec2Model ----
(***************************************************************************)
(* Requirements-ingestion pipeline of industry/roles/laravel_ingest_agent: *)
(* IngestSpecsAction.run and the stages it sequences (load, segment,       *)
(* classify, enrich, validate, project, persist).                          *)
(*                                                                         *)
(* Texts are sequences of word tokens; a keyword test kw in text.lower() *)
(* is a substring test, modelled through the table KeywordsOf, which gives *)
(* for every word of the vocabulary the keywords its lower-cased spelling  *)
(* contains.  An LLM reply is a sequence of tokens (fences, braces, prose, *)
(* key/value fields); a call to the LLM either returns such a reply or     *)
(* raises an exception of some class.                                      *)
(***************************************************************************)
EXTENDS Integers, Sequences, FiniteSets, TLC

\* ------------------------------------------------------------------ bounds

\* Most statements one run segments out of its documents.
MaxStatements == 2

\* ------------------------------------------------------------ the taxonomy

Types == {"Intent", "Requirement", "Constraint", "Flow", "Interface", "Design"}

Contexts == {"Environment-specific", "Project-specific"}

\* A type / a context the inference service may return outside the closed sets
\* (the prompt asks for the closed sets; nothing forces the reply into them).
OtherType == "Feature"

OtherContext == "Global"

ReplyTypes == Types \cup {OtherType}

\* A reply may also leave the context empty.
NoContext == ""

ReplyContexts == Contexts \cup {OtherContext, NoContext}

\* -------------------------------------------------------------------- texts

\* Keywords the enrichment helpers look for, as substrings of the lower-cased text.
KeywordsOf(w) ==
    CASE w = "POST"              -> {}
      [] w = "/api/v1/payments"  -> {"api"}
      [] w = "returns"           -> {}
      [] w = "Status"            -> {"status"}
      [] w = "CSV"               -> {"csv"}
      [] w = "file"              -> {}
      [] w = "MUST"              -> {"must"}
      [] w = "include"           -> {"include"}
      [] w = "amount"            -> {"amount"}
      [] w = "Dashboard"         -> {}
      [] w = "lists"             -> {}
      [] w = "payments"          -> {}
      [] w = "Shall"             -> {"shall"}
      [] w = "required"          -> {"required"}
      [] w = "Mandatory"         -> {"mandatory"}
      [] w = "CRITICAL"          -> {"critical"}
      [] w = "mustard"           -> {"must"}
      [] w = "should"            -> {"should"}
      [] w = "Important"         -> {"important"}
      [] w = "Notification"      -> {"notification", "notif"}
      [] OTHER                   -> {}

\* kw in statement.lower() for a one-word keyword.
Has(text, kw) == \E i \in 1..Len(text) : kw \in KeywordsOf(text[i])

TextApi == <<"POST", "/api/v1/payments", "returns", "Status">>

TextCsv == <<"CSV", "file", "MUST", "include", "amount">>

TextUi == <<"Dashboard", "lists", "payments">>

\* The statements the segmentation replies of this model can contain.
StatementTexts == {TextApi, TextCsv, TextUi}

\* str.lower() of a word of the vocabulary.
Lower(w) ==
    CASE w = "POST"   -> "post"
      [] w = "Status" -> "status"
      [] w = "CSV"    -> "csv"
      [] w = "MUST"   -> "must"
      [] w = "Dashboard" -> "dashboard"
      [] w = "Shall"  -> "shall"
      [] w = "Mandatory" -> "mandatory"
      [] w = "CRITICAL" -> "critical"
      [] w = "Important" -> "important"
      [] w = "Notification" -> "notification"
      [] OTHER        -> w

\* Whether a word ends with a comma (commas occur only at the end of a word here).
EndsWithComma(w) == w \in {}

\* The first run of digits (and commas) \d+[\,\d]* of a word, "" when it has none.
NumberIn(w) == IF w = "/api/v1/payments" THEN "1" ELSE ""

\* a b in statement.lower() for a keyword of two words: word i ends with a and
\* word i+1 starts with b (the vocabulary's keywords are whole words there).
HasPair(text, a, b) ==
    \E i \in 1..(Len(text) - 1) :
        a \in KeywordsOf(text[i]) /\ b \in KeywordsOf(text[i + 1])

\* Least element of a non-empty set of integers.
Min(S) == CHOOSE x \in S : \A y \in S : x <= y

Max(S) == CHOOSE x \in S : \A y \in S : y <= x

LowerAll(text) == [i \in 1..Len(text) |-> Lower(text[i])]

\* ------------------------------------------------------- enrichment helpers

TBD == <<"TBD">>

\* _determine_routing: routing_map.get(stmt_type, []).
RoutingDropsGoals(stmt_type) ==
    CASE stmt_type = "Intent"      -> <<"PM_Input">>
      [] stmt_type = "Requirement" -> <<"Context">>
      [] stmt_type = "Constraint"  -> <<"Context">>
      [] stmt_type = "Flow"        -> <<"Context">>
      [] stmt_type = "Interface"   -> <<"Context">>
      [] stmt_type = "Design"      -> <<"Architect_Seeds">>
      [] OTHER                     -> <<>>

_determine_routing(stmt_type) ==
    CASE stmt_type = "Intent"      -> <<"PM_Input">>
      [] stmt_type = "Requirement" -> <<"PM_Input", "Context">>
      [] stmt_type = "Constraint"  -> <<"Context">>
      [] stmt_type = "Flow"        -> <<"Context">>
      [] stmt_type = "Interface"   -> <<"Context">>
      [] stmt_type = "Design"      -> <<"Architect_Seeds">>
      [] OTHER                     -> <<>>

P0Keywords == {"must", "shall", "required", "mandatory", "critical"}

P1Keywords == {"should", "important", "notification", "status"}

\* _infer_priority looking for the P1 keywords before the P0 keywords.
InferPriorityP1First(statement) ==
    IF \E kw \in P1Keywords : Has(statement, kw) THEN "P1"
    ELSE IF \E kw \in P0Keywords : Has(statement, kw) THEN "P0"
    ELSE "P2"

_infer_priority(statement) ==
    IF \E kw \in P0Keywords : Has(statement, kw) THEN "P0"
    ELSE IF \E kw \in P1Keywords : Has(statement, kw) THEN "P1"
    ELSE "P2"

_infer_category(statement) ==
    IF Has(statement, "upload") THEN "File Upload"
    ELSE IF Has(statement, "template") \/ Has(statement, "download")
        THEN "File Template Management"
    ELSE IF Has(statement, "validat") \/ Has(statement, "error")
        THEN "Validation & Errors"
    ELSE IF Has(statement, "approv") THEN "Approval Workflow"
    ELSE IF Has(statement, "status") \/ Has(statement, "track")
        THEN "Status Tracking"
    ELSE IF Has(statement, "notif") THEN "Notifications"
    ELSE "General"

_infer_enforcement(statement) ==
    IF Has(statement, "must") \/ Has(statement, "shall") THEN "Hard constraint"
    ELSE IF Has(statement, "should") THEN "Soft constraint"
    ELSE "Validation rule"

_extract_validation_rule(statement) ==
    IF Has(statement, "positive") /\ Has(statement, "amount") THEN <<"amount > 0">>
    ELSE IF HasPair(statement, "up", "to") \/ Has(statement, "maximum")
        THEN LET withNum == {i \in 1..Len(statement) : NumberIn(statement[i]) # ""}
             IN  IF withNum # {} THEN <<"<=", NumberIn(statement[Min(withNum)])>>
                 ELSE TBD
    ELSE IF Has(statement, "required") \/ HasPair(statement, "must", "include")
        THEN <<"NOT NULL">>
    ELSE TBD

\* The words after the first kw up to the first comma, lower-cased:
\* re.search(kw + r'\s+(.+?),', text).group(1); <<>> stands for "no match".
AfterKeywordToComma(statement, kw) ==
    LET starts == {i \in 1..Len(statement) : kw \in KeywordsOf(statement[i])}
        ends == {j \in 1..Len(statement) :
                    /\ EndsWithComma(statement[j])
                    /\ \E i \in starts : i < j}
    IN  IF ends = {} THEN <<>>
        ELSE LET j == Min(ends)
                 i == Min({k \in starts : k < j})
             IN  SubSeq(LowerAll(statement), i + 1, j)

_extract_trigger(statement) ==
    IF Has(statement, "after")
        THEN IF AfterKeywordToComma(statement, "after") # <<>>
                THEN AfterKeywordToComma(statement, "after") ELSE TBD
    ELSE IF Has(statement, "when")
        THEN IF AfterKeywordToComma(statement, "when") # <<>>
                THEN AfterKeywordToComma(statement, "when") ELSE TBD
    ELSE TBD

\* statement.split(',')[-1].strip() when the statement has a comma.
_extract_outcome(statement) ==
    LET commas == {i \in 1..Len(statement) : EndsWithComma(statement[i])}
    IN  IF commas # {}
            THEN SubSeq(statement, Max(commas) + 1, Len(statement))
            ELSE TBD

_extract_pattern(statement) ==
    IF Has(statement, "queue") \/ Has(statement, "async")
        THEN "Async Processing Pattern"
    ELSE IF Has(statement, "service") /\ Has(statement, "layer")
        THEN "Service Layer Pattern"
    ELSE IF Has(statement, "controller") THEN "Controller Pattern"
    ELSE IF Has(statement, "scope") \/ Has(statement, "tenant")
        THEN "Multi-Tenancy Pattern"
    ELSE "Design Pattern"

\* The Interface branch of _enrich_metadata.
InterfaceKind(statement) ==
    IF Has(statement, "api") \/ Has(statement, "endpoint") THEN "API"
    ELSE IF Has(statement, "csv") THEN "CSV"
    ELSE "UI"

\* ------------------------------------------------------------ LLM replies

\* Tokens of a reply to the classification prompt.
Tok(t) == [t |-> t, k |-> "", v |-> ""]

FenceJson == Tok("fence_json")

Fence == Tok("fence")

LBrace == Tok("{")

RBrace == Tok("}")

Prose == Tok("prose")

\* A complete JSON value that is not an object, such as null.
JsonNull == Tok("null")

\* "k": "v" inside an object.
Field(k, v) == [t |-> "field", k |-> k, v |-> v]

\* What await self._llm.aask(prompt) does: return a reply or raise.
Returned(text) == [kind |-> "return", exc |-> "", text |-> text]

Raised(exc) == [kind |-> "raise", exc |-> exc, text |-> <<>>]

\* Exception classes a call can raise: json.JSONDecodeError (a provider that fails
\* to decode the service's own answer) or any other Exception.
CallExceptions == {"JSONDecodeError", "ConnectionError"}

\* The local variable response of _classify_statements: unbound until the
\* first call returns.
Unbound == [bound |-> FALSE, text |-> <<>>]

Bound(text) == [bound |-> TRUE, text |-> text]

\* _extract_json, first pattern (a json fence, an object, a closing fence): the
\* leftmost opening json fence directly followed by "{", then lazily up to the
\* first "}" directly followed by three backquotes (those of a json fence match too).
FencedMatches(r) ==
    {<<i, j>> \in (1..Len(r)) \X (1..Len(r)) :
        /\ r[i] = FenceJson
        /\ i + 1 <= Len(r) /\ r[i + 1] = LBrace
        /\ j > i + 1 /\ r[j] = RBrace
        /\ j + 1 <= Len(r) /\ r[j + 1] \in {Fence, FenceJson}}

\* _extract_json, second pattern: (\{.*?\}) -- the first "{" that has a "}"
\* after it, up to the first such "}".
RawMatches(r) ==
    {<<i, j>> \in (1..Len(r)) \X (1..Len(r)) :
        r[i] = LBrace /\ j > i /\ r[j] = RBrace}

\* The leftmost match, and for it the shortest.
FirstMatch(M) ==
    LET i == Min({m[1] : m \in M})
    IN  <<i, Min({m[2] : m \in {n \in M : n[1] = i}})>>

_extract_json(response) ==
    IF FencedMatches(response) # {}
        THEN SubSeq(response, FirstMatch(FencedMatches(response))[1] + 1,
                    FirstMatch(FencedMatches(response))[2])
    ELSE IF RawMatches(response) # {}
        THEN SubSeq(response, FirstMatch(RawMatches(response))[1],
                    FirstMatch(RawMatches(response))[2])
    ELSE response

\* json.loads: an object of string fields, a non-object value, or JSONDecodeError.
IsJsonObject(s) ==
    /\ Len(s) >= 2
    /\ s[1] = LBrace
    /\ s[Len(s)] = RBrace
    /\ \A i \in 2..(Len(s) - 1) : s[i].t = "field"

\* The keys of a parsed object, and the value of a key (the last one wins).
ObjectKeys(s) == {s[i].k : i \in 2..(Len(s) - 1)}

ObjectGet(s, key) ==
    s[Max({i \in 2..(Len(s) - 1) : s[i].k = key})].v

json_loads(s) ==
    IF IsJsonObject(s) THEN [ok |-> TRUE, isdict |-> TRUE, obj |-> s]
    ELSE IF s = <<JsonNull>> THEN [ok |-> TRUE, isdict |-> FALSE, obj |-> s]
    ELSE [ok |-> FALSE, isdict |-> FALSE, obj |-> s]

\* f'STMT-{i+1:03d}' and f"{prefix}-{counter:03d}": the digits of n, padded
\* with zeros to at least three.
RECURSIVE Digits(_)
Digits(n) == IF n < 10 THEN <<n>> ELSE Append(Digits(n \div 10), n % 10)

Format03d(n) ==
    IF Len(Digits(n)) >= 3 THEN Digits(n)
    ELSE [i \in 1..(3 - Len(Digits(n))) |-> 0] \o Digits(n)

\* The number a string of digits spells.
RECURSIVE DigitsValue(_)
DigitsValue(d) ==
    IF d = <<>> THEN 0
    ELSE 10 * DigitsValue(SubSeq(d, 1, Len(d) - 1)) + d[Len(d)]

StmtId(prefix, n) == [prefix |-> prefix, num |-> Format03d(n)]

\* One classified statement (the dict _classify_statements appends).
ClassifiedStmt(i, statement, type, context, rationale) ==
    [id |-> StmtId("STMT", i), statement |-> statement, type |-> type,
     context |-> context, context_rationale |-> rationale]

RationaleLLMError == "Auto-classified (LLM error)"

RationaleError == "Auto-classified (error)"

FallbackStmt(i, statement, rationale) ==
    ClassifiedStmt(i, statement, "Requirement", "Project-specific", rationale)

RequiredFields == {"type", "context", "context_rationale"}

\* ------------------------------------------------- documents and segmentation

\* A document's text is the sequence of its lines; a line is the number of
\* whitespace-separated words it holds (all that _chunk_content reads of it).
ContentLong == <<2000, 1500, 10>>

ContentShort == <<12, 0, 7>>

\* "[PDF content from {path} - parsing not implemented]": one line of 8 words.
ContentStub == <<8>>

TxtFile == "specs.txt"

ExtraTxtFile == "extra.txt"

MdFile == "notes.md"

PdfFile == "deck.pdf"

PptxFile == "slides.pptx"

FileContent(path) == IF path = TxtFile THEN ContentLong ELSE ContentShort

Doc(source, type, content) ==
    [source |-> source, type |-> type, content |-> content]

\* The text / markdown loops reading on after an unreadable file with an empty
\* record for it.
ReadAllBlank(listed, type, ok) ==
    [i \in 1..Len(listed) |->
        Doc(listed[i], type, IF listed[i] \in ok THEN FileContent(listed[i]) ELSE <<>>)]

\* The text / markdown loops of _parse_documents: one record per path that
\* open() can read, none for a path whose read raises.
ReadAll(paths, type, readable) ==
    LET keep == SelectSeq(paths, LAMBDA q : q \in readable)
    IN  [i \in 1..Len(keep) |-> Doc(keep[i], type, FileContent(keep[i]))]

\* The PDF / PPTX loops: a placeholder record per path, nothing is read.
StubAll(paths, type) ==
    [i \in 1..Len(paths) |-> Doc(paths[i], type, ContentStub)]

_parse_documents(pdf_paths, pptx_paths, md_paths, txt_paths, readable) ==
    ReadAll(txt_paths, "txt", readable) \o ReadAll(md_paths, "md", readable)
        \o StubAll(pdf_paths, "pdf") \o StubAll(pptx_paths, "pptx")

\* The loop of _chunk_content closing a chunk already when the next line
\* would fill the budget exactly.
RECURSIVE ChunkLoopClosingAtBudget(_, _, _, _, _, _)
ChunkLoopClosingAtBudget(lines, i, chunks, current_chunk, current_length, max_tokens) ==
    IF i > Len(lines)
        THEN IF current_chunk # <<>> THEN Append(chunks, current_chunk)
             ELSE chunks
    ELSE IF current_length + lines[i] >= max_tokens /\ current_chunk # <<>>
        THEN ChunkLoopClosingAtBudget(lines, i + 1, Append(chunks, current_chunk),
                                      <<lines[i]>>, lines[i], max_tokens)
    ELSE ChunkLoopClosingAtBudget(lines, i + 1, chunks,
                                  Append(current_chunk, lines[i]),
                                  current_length + lines[i], max_tokens)

\* The loop of _chunk_content from line i on.
RECURSIVE ChunkLoop(_, _, _, _, _, _)
ChunkLoop(lines, i, chunks, current_chunk, current_length, max_tokens) ==
    IF i > Len(lines)
        THEN IF current_chunk # <<>> THEN Append(chunks, current_chunk)
             ELSE chunks
    ELSE IF current_length + lines[i] > max_tokens /\ current_chunk # <<>>
        THEN ChunkLoop(lines, i + 1, Append(chunks, current_chunk),
                       <<lines[i]>>, lines[i], max_tokens)
    ELSE ChunkLoop(lines, i + 1, chunks, Append(current_chunk, lines[i]),
                   current_length + lines[i], max_tokens)

_chunk_content(content, max_tokens) ==
    ChunkLoop(content, 1, <<>>, <<>>, 0, max_tokens)

\* max_tokens=3000 at the call in _segment_documents.
SegmentMaxTokens == 3000

\* A line of a segmentation reply: leading digits (how many), the character
\* after them, the white space after that (how many), and the rest of the line.
Line(digits, punct, gap, body) ==
    [digits |-> digits, punct |-> punct, gap |-> gap, body |-> body]

\* The pattern without the white space it asks for after the marker.
LineMatchesBare(l) ==
    /\ l.digits >= 1
    /\ l.punct \in {".", ")", ":"}

\* re.match(r'^\s*\d+[\.\)\:]\s+(.+)$', line): \s+ and .+ both need a character,
\* so a marker followed by white space alone matches when that is two or more.
LineMatches(l) ==
    /\ l.digits >= 1
    /\ l.punct \in {".", ")", ":"}
    /\ IF l.body = <<>> THEN l.gap >= 2 ELSE l.gap >= 1

\* response.strip(): the last line loses its trailing white space.
StripReply(lines) ==
    IF lines # <<>> /\ lines[Len(lines)].body = <<>>
        THEN [lines EXCEPT ![Len(lines)].gap = 0]
        ELSE lines

_parse_numbered_list(response) ==
    LET kept == SelectSeq(StripReply(response), LineMatches)
    IN  [i \in 1..Len(kept) |-> kept[i].body]

\* Replies of the service to a segmentation prompt.
SegmentReplies ==
    { <<>>,
      <<Line(1, ".", 1, TextApi)>>,
      <<Line(1, ")", 1, TextCsv)>>,
      <<Line(2, ":", 2, TextUi)>>,
      <<Line(0, "-", 1, TextApi), Line(1, ".", 1, TextUi)>>,
      <<Line(1, ".", 1, TextCsv), Line(0, "", 0, TextUi),
        Line(1, ".", 0, TextApi), Line(2, ".", 1, TextCsv)>> }

SegmentOutcomes ==
    {Returned(r) : r \in SegmentReplies} \cup {Raised(e) : e \in CallExceptions}

\* Replies of the service to a classification prompt.
RawReply(t, c) ==
    <<LBrace, Field("type", t), Field("context", c),
      Field("context_rationale", "because"), RBrace>>

FencedReply(t, c) == <<Prose, FenceJson>> \o RawReply(t, c) \o <<Fence>>

ClassifyReplies ==
    {RawReply(t, c) : t \in ReplyTypes, c \in ReplyContexts}
        \cup {FencedReply(t, c) : t \in Types, c \in Contexts}
        \cup { <<>>,
               <<Prose>>,
               <<JsonNull>>,
               <<LBrace, RBrace>>,
               <<LBrace, Field("type", "Flow"),
                 Field("context", "Environment-specific"), RBrace>>,
               <<LBrace, Field("type", "Design"), LBrace, RBrace, RBrace>>,
               <<FenceJson, Prose>> \o RawReply("Intent", "Project-specific") }

ClassifyOutcomes ==
    {Returned(r) : r \in ClassifyReplies} \cup {Raised(e) : e \in CallExceptions}

\* ------------------------------------------------------------------- state

VARIABLES
    pc,                \* where run() is: the step it is about to take
    exc,               \* the exception that ended run(), "" while none has
    paths,             \* the arguments of run(): the four lists of paths
    readable,          \* the listed files that open() and read() succeed on
    parsed_docs,       \* the documents _segment_documents was handed
    doc_i,             \* _segment_documents: the document being segmented
    chunk_i,           \*   and the chunk of it whose call comes next
    statements,        \* all_statements / statements
    last_call,         \* how the latest call of self._llm.aask ended
    response,          \* _classify_statements: its local variable response
    classified,        \* the classified list
    type_counters,     \* _enrich_metadata: its per-type counters
    enriched,          \* the enriched list
    earlier,           \* what an earlier _enrich_metadata(classified) returned
    validation_errors, \* what _validate_classifications returned
    outputs,           \* what _generate_outputs returned (file name -> content)
    disk,              \* files under industry/output (file name -> content)
    requirements,      \* what _load_requirements of a downstream role returned
    requirements_format, \* per downstream role, what its format detection said
    calls              \* the calls of self._llm.aask made by the two stages that
                       \*   call it, counted until the second has returned

vars == <<pc, exc, paths, readable, parsed_docs, doc_i, chunk_i, statements, last_call, response,
          classified, type_counters, enriched, earlier, validation_errors,
          outputs, disk, requirements, requirements_format, calls>>

\* No call made yet by the stage that is running.
NoCall == [kind |-> "none", exc |-> "", text |-> <<>>]

\* No call of self._llm.aask counted.
NoCalls == [chunk |-> 0, statement |-> 0]

\* run() called with no path at all.
NoPaths == [pdf_paths |-> <<>>, pptx_paths |-> <<>>, md_paths |-> <<>>,
            txt_paths |-> <<>>]

\* No earlier result to compare with.
NotYet == [returned |-> FALSE, list |-> <<>>]

\* A mapping with no keys (an empty dict).
EmptyDict == [x \in {} |-> x]

\* The two downstream roles that load the context document.
Roles == {"LaravelProductManager", "LaravelArchitect"}

\* No downstream role has loaded its requirements yet.
NotLoaded == [loaded |-> FALSE, data |-> EmptyDict]

\* Either run() is about to be called, or no ingestion is run at all and the
\* downstream roles find the requirements files of the old format.
Init ==
    /\ pc \in {"parse", "no run"}
    /\ exc = ""
    /\ paths = NoPaths
    /\ readable = {}
    /\ parsed_docs = <<>>
    /\ doc_i = 1
    /\ chunk_i = 1
    /\ statements = <<>>
    /\ last_call = NoCall
    /\ response = Unbound
    /\ classified = <<>>
    /\ type_counters = EmptyDict
    /\ enriched = <<>>
    /\ earlier = NotYet
    /\ validation_errors = <<>>
    /\ outputs = EmptyDict
    /\ disk = EmptyDict
    /\ requirements = NotLoaded
    /\ requirements_format = [role \in Roles |-> ""]
    /\ calls = NoCalls

\* -------------------------------------------------- step 1: _parse_documents

\* The paths a sequence of paths names.
Files(listed) == {listed[i] : i \in 1..Len(listed)}

\* run(pdf_paths, pptx_paths, md_paths, txt_paths): a list is empty or names one
\* file (the text list, one or two); each listed text or markdown file can be
\* read or not.
ParseDocuments ==
    /\ pc = "parse"
    /\ \E txt_paths \in {<<>>, <<TxtFile>>, <<ExtraTxtFile, TxtFile>>},
          md_paths \in {<<>>, <<MdFile>>},
          pdf_paths \in {<<>>, <<PdfFile>>}, pptx_paths \in {<<>>, <<PptxFile>>} :
        \E ok \in SUBSET (Files(txt_paths) \cup Files(md_paths)) :
            /\ paths' = [pdf_paths |-> pdf_paths, pptx_paths |-> pptx_paths,
                         md_paths |-> md_paths, txt_paths |-> txt_paths]
            /\ readable' = ok
            /\ parsed_docs' = _parse_documents(pdf_paths, pptx_paths, md_paths,
                                                txt_paths, ok)
    /\ pc' = "segment"
    /\ doc_i' = 1
    /\ chunk_i' = 1
    /\ UNCHANGED <<calls, requirements, requirements_format, earlier, last_call, exc, statements, response, classified,
                   type_counters, enriched, validation_errors, outputs, disk>>

\* ------------------------------------------------ step 2: _segment_documents

content_chunks == _chunk_content(parsed_docs[doc_i].content, SegmentMaxTokens)

\* A failed call discarding the statements of the chunks before it.
SegmentResultReset(all_statements, outcome) ==
    IF outcome.kind = "return"
        THEN all_statements \o _parse_numbered_list(outcome.text)
        ELSE <<>>

\* all_statements after the call for one chunk: extended by the statements
\* parsed from the reply, left alone when the call raised.
SegmentResult(all_statements, outcome) ==
    IF outcome.kind = "return"
        THEN all_statements \o _parse_numbered_list(outcome.text)
        ELSE all_statements

\* One pass of the inner loop: the call for chunk chunk_i of document doc_i,
\* ending in one of outcomes.
SegmentChunkOf(outcomes) ==
    /\ pc = "segment"
    /\ doc_i <= Len(parsed_docs)
    /\ \E outcome \in outcomes :
        /\ Len(SegmentResult(statements, outcome)) <= MaxStatements
        /\ statements' = SegmentResult(statements, outcome)
        /\ last_call' = outcome
    /\ calls' = [calls EXCEPT !.chunk = @ + 1]
    /\ IF chunk_i < Len(content_chunks)
          THEN chunk_i' = chunk_i + 1 /\ doc_i' = doc_i
          ELSE chunk_i' = 1 /\ doc_i' = doc_i + 1
    /\ UNCHANGED <<requirements, requirements_format, paths, readable, earlier, pc, exc, parsed_docs, response, classified, type_counters,
                   enriched, validation_errors, outputs, disk>>

SegmentChunk == SegmentChunkOf(SegmentOutcomes)

\* _segment_documents returns; run() reads neither its arguments nor
\* parsed_docs again.
SegmentReturn ==
    /\ pc = "segment"
    /\ doc_i > Len(parsed_docs)
    /\ pc' = "classify"
    /\ paths' = NoPaths
    /\ readable' = {}
    /\ parsed_docs' = <<>>
    /\ doc_i' = 1
    /\ chunk_i' = 1
    /\ response' = Unbound
    /\ last_call' = NoCall
    /\ UNCHANGED <<calls, requirements, requirements_format, earlier, exc, statements, classified, type_counters, enriched,
                   validation_errors, outputs, disk>>

\* ----------------------------------------------- step 3: _classify_statements

\* One pass of the loop of _classify_statements for statement i (counted from
\* 1), with response as the previous passes left it:
\*   raised    the exception that leaves the loop, "" when none does
\*   response  the local variable afterwards
\*   stmt      the record appended (when nothing is raised)
ClassifyPass(i, statement, resp, outcome) ==
    IF outcome.kind = "raise"
        THEN IF outcome.exc = "JSONDecodeError"
                \* except json.JSONDecodeError: ... response[:200] ...
                THEN IF resp.bound
                        THEN [raised |-> "", response |-> resp,
                              stmt |-> FallbackStmt(i, statement, RationaleLLMError)]
                        ELSE [raised |-> "UnboundLocalError", response |-> resp,
                              stmt |-> FallbackStmt(i, statement, RationaleLLMError)]
                \* except Exception
                ELSE [raised |-> "", response |-> resp,
                      stmt |-> FallbackStmt(i, statement, RationaleError)]
    ELSE LET loaded == json_loads(_extract_json(outcome.text))
         IN  IF ~loaded.ok
                THEN [raised |-> "", response |-> Bound(outcome.text),
                      stmt |-> FallbackStmt(i, statement, RationaleLLMError)]
             ELSE IF ~loaded.isdict \/ ~(RequiredFields \subseteq ObjectKeys(loaded.obj))
                \* TypeError / KeyError, caught by except Exception
                THEN [raised |-> "", response |-> Bound(outcome.text),
                      stmt |-> FallbackStmt(i, statement, RationaleError)]
             ELSE [raised |-> "", response |-> Bound(outcome.text),
                   stmt |-> ClassifiedStmt(i, statement,
                                ObjectGet(loaded.obj, "type"),
                                ObjectGet(loaded.obj, "context"),
                                ObjectGet(loaded.obj, "context_rationale"))]

ClassifyStatement ==
    /\ pc = "classify"
    /\ Len(classified) < Len(statements)
    /\ \E outcome \in ClassifyOutcomes :
        LET i == Len(classified) + 1
            pass == ClassifyPass(i, statements[i], response, outcome)
        IN  /\ response' = pass.response
            /\ last_call' = outcome
            /\ calls' = [calls EXCEPT !.statement = @ + 1]
            /\ IF pass.raised # ""
                  THEN /\ pc' = "raised"
                       /\ exc' = pass.raised
                       /\ classified' = classified
                  ELSE /\ pc' = pc
                       /\ exc' = exc
                       /\ classified' = Append(classified, pass.stmt)
    /\ UNCHANGED <<requirements, requirements_format, paths, readable, earlier, parsed_docs, doc_i, chunk_i, statements, type_counters,
                   enriched, validation_errors, outputs, disk>>

\* Enrichment starting as soon as one statement is classified.
ClassifyReturnEarly ==
    /\ pc = "classify"
    /\ Len(classified) >= Min({1, Len(statements)})
    /\ pc' = "enrich"
    /\ response' = Unbound
    /\ last_call' = NoCall
    /\ calls' = NoCalls
    /\ UNCHANGED <<requirements, requirements_format, paths, readable, earlier, exc, parsed_docs, doc_i, chunk_i,
                   statements, classified, type_counters, enriched,
                   validation_errors, outputs, disk>>

\* _classify_statements returns (its locals go) and _enrich_metadata starts.
ClassifyReturn ==
    /\ pc = "classify"
    /\ Len(classified) = Len(statements)
    /\ pc' = "enrich"
    /\ response' = Unbound
    /\ last_call' = NoCall
    /\ calls' = NoCalls
    /\ UNCHANGED <<requirements, requirements_format, paths, readable, earlier, exc, parsed_docs, doc_i, chunk_i, statements, classified,
                   type_counters, enriched, validation_errors, outputs, disk>>

\* --------------------------------------------------- step 4: _enrich_metadata

type_prefixes(stmt_type) ==
    CASE stmt_type = "Intent"      -> "INT"
      [] stmt_type = "Requirement" -> "REQ"
      [] stmt_type = "Constraint"  -> "CON"
      [] stmt_type = "Flow"        -> "FLOW"
      [] stmt_type = "Interface"   -> "INT"
      [] stmt_type = "Design"      -> "DES"

\* The fields the type-specific branches add.
TypeFields(stmt) ==
    CASE stmt.type = "Requirement" ->
            [category |-> _infer_category(stmt.statement),
             acceptance_criteria |-> <<>>]
      [] stmt.type = "Constraint" ->
            [enforcement |-> _infer_enforcement(stmt.statement),
             validation_rule |-> _extract_validation_rule(stmt.statement)]
      [] stmt.type = "Flow" ->
            [trigger |-> _extract_trigger(stmt.statement),
             outcome |-> _extract_outcome(stmt.statement)]
      [] stmt.type = "Interface" ->
            [interface_type |-> InterfaceKind(stmt.statement)]
      [] stmt.type = "Design" ->
            [pattern |-> _extract_pattern(stmt.statement)]
      [] OTHER -> EmptyDict

\* The counters after the pass for a statement of type stmt_type.
CountAll(counters, stmt_type) == [t \in DOMAIN counters |-> counters[t] + 1]

Count(counters, stmt_type) == [counters EXCEPT ![stmt_type] = @ + 1]

\* The identifier assigned from the counter just incremented.
TypeId(stmt_type, counter) == StmtId(type_prefixes(stmt_type), counter)

\* enriched_stmt carrying the statement text in lower case.
EnrichStmtLowered(stmt, counters) ==
    [id |-> TypeId(stmt.type, counters[stmt.type]),
     statement |-> LowerAll(stmt.statement),
     type |-> stmt.type,
     context |-> stmt.context,
     context_rationale |-> stmt.context_rationale,
     routing |-> _determine_routing(stmt.type),
     priority |-> _infer_priority(stmt.statement)] @@ TypeFields(stmt)

\* enriched_stmt for stmt, counters being the counters after the increment.
EnrichStmt(stmt, counters) ==
    [id |-> TypeId(stmt.type, counters[stmt.type]),
     statement |-> stmt.statement,
     type |-> stmt.type,
     context |-> stmt.context,
     context_rationale |-> stmt.context_rationale,
     routing |-> _determine_routing(stmt.type),
     priority |-> _infer_priority(stmt.statement)] @@ TypeFields(stmt)

\* The counters an invocation of _enrich_metadata starts from, current being
\* what the counters of an earlier invocation were left at.
KeepCounters(current) ==
    IF DOMAIN current = {} THEN [t \in Types |-> 0] ELSE current

StartCounters(current) == [t \in Types |-> 0]

\* _enrich_metadata up to its loop: enriched = [] and the six counters at 0.
EnrichStart ==
    /\ pc = "enrich"
    /\ enriched' = <<>>
    /\ type_counters' = StartCounters(type_counters)
    /\ pc' = "enrich_loop"
    /\ UNCHANGED <<calls, requirements, requirements_format, paths, readable, earlier, last_call, exc, parsed_docs, doc_i, chunk_i, statements,
                   response, classified, validation_errors, outputs, disk>>

\* One pass of the loop of _enrich_metadata; type_counters[stmt_type] raises
\* KeyError for a type that is not one of the six keys.
EnrichStatement ==
    /\ pc = "enrich_loop"
    /\ Len(enriched) < Len(classified)
    /\ LET stmt == classified[Len(enriched) + 1]
       IN  IF stmt.type \in DOMAIN type_counters
              THEN /\ type_counters' = Count(type_counters, stmt.type)
                   /\ enriched' = Append(enriched,
                                         EnrichStmt(stmt, type_counters'))
                   /\ UNCHANGED <<requirements, requirements_format, paths, readable, earlier, pc, exc>>
              ELSE /\ pc' = "raised"
                   /\ exc' = "KeyError"
                   /\ UNCHANGED <<requirements, requirements_format, paths, readable, earlier, type_counters, enriched>>
    /\ UNCHANGED <<calls, requirements, requirements_format, paths, readable, earlier, last_call, parsed_docs, doc_i, chunk_i, statements, response,
                   classified, validation_errors, outputs, disk>>

EnrichReturn ==
    /\ pc = "enrich_loop"
    /\ Len(enriched) = Len(classified)
    /\ pc' = "validate"
    /\ UNCHANGED <<calls, requirements, requirements_format, paths, readable, earlier, last_call, exc, parsed_docs, doc_i, chunk_i, statements, response,
                   classified, type_counters, enriched, validation_errors,
                   outputs, disk>>

\* ------------------------------------------ step 5: _validate_classifications

\* The indices of the elements of a list that satisfy Test, in order.
Where(list, Test(_)) ==
    SelectSeq([i \in 1..Len(list) |-> i], LAMBDA i : Test(list[i]))

CountWhere(list, Test(_)) == Len(Where(list, Test))

\* not value, for the values a field holds here (strings).
Falsy(value) == value = ""

Warning(check, count, total, about) ==
    [check |-> check, count |-> count, total |-> total, about |-> about]

NoId == [prefix |-> "", num |-> <<>>]

EnvBandLow == 15

EnvBandHigh == 60

ReqShareMin == 30

\* The share compared with <= where the code compares with <.
PctBelowOrAt(count, total, bound) ==
    IF total = 0 THEN 0 <= bound ELSE count * 100 <= bound * total

\* count / len(enriched) * 100 if enriched else 0, compared as count*100 with
\* bound*len (the float product is exact at the three bounds).
PctBelow(count, total, bound) ==
    IF total = 0 THEN 0 < bound ELSE count * 100 < bound * total

PctAbove(count, total, bound) ==
    IF total = 0 THEN 0 > bound ELSE count * 100 > bound * total

\* Check 3 warning only about a corpus that has statements.
IntentCheckNonEmpty(list) ==
    IF list # <<>> /\ CountWhere(list, LAMBDA st : st.type = "Intent") = 0
        THEN <<Warning("WARN No Intent statements found", 0, Len(list), NoId)>>
        ELSE <<>>

\* Check 3: Intent statements present.
IntentCheck(list) ==
    LET intent_count == CountWhere(list, LAMBDA st : st.type = "Intent")
    IN  IF intent_count = 0
            THEN <<Warning("WARN No Intent statements found", 0, Len(list), NoId)>>
            ELSE <<>>

_validate_classifications(list) ==
    LET missing == Where(list, LAMBDA st : Falsy(st.type) \/ Falsy(st.context))
        env_count == CountWhere(list, LAMBDA st : st.context = "Environment-specific")
        req_count == CountWhere(list, LAMBDA st : st.type = "Requirement")
        n == Len(list)
    IN  [i \in 1..Len(missing) |-> Warning("FAIL missing type or context", 0, n,
                                           list[missing[i]].id)]
        \o (IF PctBelow(env_count, n, EnvBandLow) \/ PctAbove(env_count, n, EnvBandHigh)
              THEN <<Warning("WARN Environment-specific %", env_count, n, NoId)>>
              ELSE <<>>)
        \o IntentCheck(list)
        \o (IF PctBelow(req_count, n, ReqShareMin)
              THEN <<Warning("WARN Requirements only %", req_count, n, NoId)>>
              ELSE <<>>)

\* Step 5 stopping the run when the validator returned warnings.
ValidateHalts ==
    /\ pc = "validate"
    /\ validation_errors' = _validate_classifications(enriched)
    /\ IF validation_errors' = <<>>
          THEN pc' = "generate" /\ exc' = exc
          ELSE pc' = "raised" /\ exc' = "ValidationError"
    /\ UNCHANGED <<calls, requirements, requirements_format, paths, readable, earlier, last_call, parsed_docs, doc_i, chunk_i, statements, response,
                   classified, type_counters, enriched, outputs, disk>>

\* Step 5 of run(): the warnings are logged, the run goes on.
Validate ==
    /\ pc = "validate"
    /\ validation_errors' = _validate_classifications(enriched)
    /\ pc' = "generate"
    /\ UNCHANGED <<calls, requirements, requirements_format, paths, readable, earlier, last_call, exc, parsed_docs, doc_i, chunk_i, statements, response,
                   classified, type_counters, enriched, outputs, disk>>

\* --------------------------------------------------- step 6: _generate_outputs

\* stmt.get(key, default).
Get(stmt, key, default) == IF key \in DOMAIN stmt THEN stmt[key] ELSE default

None == "None"

\* Latest reading of the clock during a run, the first being 0.
MaxClock == 1

\* datetime.now().strftime('%Y-%m-%d %H:%M:%S') at the three places it is
\* called from, in the order of the calls: a reading, to the second, of a
\* clock that does not go back.
ClockReadings ==
    {now \in [1..3 -> 0..MaxClock] : now[1] <= now[2] /\ now[2] <= now[3]}

\* What an artifact lists of one statement: pos is the place in the enriched
\* list of the dict the line or record is rendered from, the rest is what it
\* shows.
IsEnv(stmt) == stmt.context = "Environment-specific"

\* "  - *Environment-specific*: {context_rationale}", when the context is that.
EnvNote(stmt) == IF IsEnv(stmt) THEN <<stmt.context_rationale>> ELSE <<>>

\* The listing of the statements at the places sel, each shown by Show.
Listing(list, sel, Show(_, _)) == [j \in 1..Len(sel) |-> Show(sel[j], list[sel[j]])]

PmIntent(pos, stmt) ==
    [pos |-> pos, id |-> stmt.id, statement |-> stmt.statement,
     note |-> EnvNote(stmt)]

PmRequirement(pos, stmt) ==
    [pos |-> pos, id |-> stmt.id, priority |-> stmt.priority,
     statement |-> stmt.statement, note |-> EnvNote(stmt)]

PmInterface(pos, stmt) ==
    [pos |-> pos, id |-> stmt.id, statement |-> stmt.statement]

Category(stmt) == Get(stmt, "category", "Uncategorized")

\* The keys of the dict categories, in insertion order: each category at the
\* first requirement that has it.
CategoryOrder(list, req) ==
    LET first == SelectSeq(req, LAMBDA i :
                    \A j \in 1..Len(req) :
                        (req[j] < i) => Category(list[req[j]]) # Category(list[i]))
    IN  [j \in 1..Len(first) |-> Category(list[first[j]])]

\* Section 3 keeping the UI interfaces only.
UserFacingUiOnly(stmt) ==
    stmt.type = "Interface" /\ Get(stmt, "interface_type", None) \in {"UI"}

UserFacingAll(stmt) == stmt.type = "Interface"

UserFacing(stmt) ==
    stmt.type = "Interface" /\ Get(stmt, "interface_type", None) \in {"UI", "CSV"}

_generate_pm_input_md(list, now) ==
    LET intent_stmts == Where(list, LAMBDA st : st.type = "Intent")
        req_stmts == Where(list, LAMBDA st : st.type = "Requirement")
        cats == CategoryOrder(list, req_stmts)
        interface_stmts == Where(list, UserFacing)
    IN  [generated |-> now,
         intent |-> Listing(list, intent_stmts, PmIntent),
         requirements |->
            [c \in 1..Len(cats) |->
                [category |-> cats[c],
                 stmts |-> Listing(list,
                              SelectSeq(req_stmts,
                                  LAMBDA i : Category(list[i]) = cats[c]),
                              PmRequirement)]],
         interfaces |-> Listing(list, interface_stmts, PmInterface)]

YamlRequirement(pos, stmt) ==
    [pos |-> pos, id |-> stmt.id, statement |-> stmt.statement,
     type |-> stmt.type, context |-> stmt.context,
     context_rationale |-> stmt.context_rationale,
     priority |-> stmt.priority, category |-> Category(stmt)]

YamlConstraint(pos, stmt) ==
    [pos |-> pos, id |-> stmt.id, statement |-> stmt.statement,
     context |-> stmt.context, context_rationale |-> stmt.context_rationale,
     priority |-> stmt.priority,
     enforcement |-> Get(stmt, "enforcement", None),
     validation_rule |-> Get(stmt, "validation_rule", <<None>>)]

YamlFlow(pos, stmt) ==
    [pos |-> pos, id |-> stmt.id, statement |-> stmt.statement,
     context |-> stmt.context, context_rationale |-> stmt.context_rationale,
     trigger |-> Get(stmt, "trigger", <<None>>),
     outcome |-> Get(stmt, "outcome", <<None>>)]

YamlInterface(pos, stmt) ==
    [pos |-> pos, id |-> stmt.id, statement |-> stmt.statement,
     context |-> stmt.context, context_rationale |-> stmt.context_rationale,
     interface_type |-> Get(stmt, "interface_type", None)]

YamlMandate(pos, stmt) ==
    [pos |-> pos, id |-> stmt.id, statement |-> stmt.statement,
     context_rationale |-> stmt.context_rationale,
     pattern |-> Get(stmt, "pattern", None),
     note |-> "Non-negotiable - environment-specific requirement"]

\* req_stmts of _generate_context_yaml.
ContextRequirementsByRouting(list) ==
    Where(list, LAMBDA st : \E r \in 1..Len(st.routing) : st.routing[r] = "Context")

\* req_stmts taking the statements the goals document opens with as well.
ContextRequirementsWithIntent(list) ==
    Where(list, LAMBDA st : st.type \in {"Intent", "Requirement"})

ContextRequirements(list) == Where(list, LAMBDA st : st.type = "Requirement")

\* con_stmts of _generate_context_yaml.
ContextConstraintsEnvOnly(list) ==
    Where(list, LAMBDA st : st.type = "Constraint" /\ IsEnv(st))

ContextConstraints(list) == Where(list, LAMBDA st : st.type = "Constraint")

\* des_stmts of _generate_context_yaml: the design mandates.
des_stmts(list) == Where(list, LAMBDA st : st.type = "Design" /\ IsEnv(st))

\* Python values whose type the YAML writer and the format detection look at.
PyList(v) == [py |-> "list", v |-> v]

PyDict(v) == [py |-> "dict", v |-> v]

PyNone == [py |-> "NoneType", v |-> <<>>]

\* An item of a dict, dicts being kept as the sequence of their items in
\* insertion order.
Item(key, value) == [key |-> key, value |-> value]

\* context_data of _generate_context_yaml when it is handed to yaml.dump.
context_data(list, now) ==
    << Item("project_metadata",
            PyDict([generated |-> now,
                    source |-> "Requirements Ingestion (TYPE + CONTEXT taxonomy)",
                    total_statements |-> Len(list),
                    environment_specific |-> CountWhere(list, IsEnv),
                    project_specific |->
                        CountWhere(list, LAMBDA st : st.context = "Project-specific")])),
       Item("requirements",
            PyList(Listing(list, ContextRequirements(list), YamlRequirement))),
       Item("constraints",
            PyList(Listing(list, ContextConstraints(list), YamlConstraint))),
       Item("flows",
            PyList(Listing(list, Where(list, LAMBDA st : st.type = "Flow"), YamlFlow))),
       Item("interfaces",
            PyList(Listing(list, Where(list, LAMBDA st : st.type = "Interface"),
                           YamlInterface))),
       Item("design_mandates",
            PyList(Listing(list, des_stmts(list), YamlMandate))) >>

\* A YAML node as yaml.dump(default_flow_style=False) writes a value after its
\* key: an empty collection in flow style ("[]", "{}"), a collection with
\* members as a block, None as "null".  The members of a collection are
\* written, and read back, as they are.
YamlNodeEmptyAsNull(value) ==
    CASE value.py = "list" /\ value.v # <<>> -> [form |-> "block sequence", v |-> value.v]
      [] value.py = "dict" /\ DOMAIN value.v # {} -> [form |-> "block mapping", v |-> value.v]
      [] OTHER -> [form |-> "null", v |-> <<>>]

YamlNode(value) ==
    CASE value.py = "list" ->
            IF value.v = <<>> THEN [form |-> "[]", v |-> <<>>]
            ELSE [form |-> "block sequence", v |-> value.v]
      [] value.py = "dict" ->
            IF DOMAIN value.v = {} THEN [form |-> "{}", v |-> EmptyDict]
            ELSE [form |-> "block mapping", v |-> value.v]
      [] value.py = "NoneType" -> [form |-> "null", v |-> <<>>]

\* yaml.dump(data, default_flow_style=False, sort_keys=False): the document, a
\* line "key:" and a node per item, in the order of the items.
yaml_dump(data) ==
    [k \in 1..Len(data) |-> [key |-> data[k].key, node |-> YamlNode(data[k].value)]]

\* The value a node is read back as.
YamlValue(node) ==
    CASE node.form \in {"[]", "block sequence"} -> PyList(node.v)
      [] node.form \in {"{}", "block mapping"} -> PyDict(node.v)
      [] node.form = "null" -> PyNone

\* yaml.safe_load of a document: the dict of its keys (the last node of a key
\* written twice).
yaml_safe_load(doc) ==
    [key \in {doc[k].key : k \in 1..Len(doc)} |->
        YamlValue(doc[Max({k \in 1..Len(doc) : doc[k].key = key})].node)]

_generate_context_yaml(list, now) == yaml_dump(context_data(list, now))

SeedPattern(pos, stmt) ==
    [pos |-> pos, id |-> stmt.id,
     pattern |-> Get(stmt, "pattern", "Design Choice"),
     statement |-> stmt.statement, context |-> stmt.context,
     context_rationale |-> stmt.context_rationale]

SeedFlow(pos, stmt) ==
    [pos |-> pos, id |-> stmt.id, statement |-> stmt.statement,
     trigger |-> Get(stmt, "trigger", TBD),
     outcome |-> Get(stmt, "outcome", TBD)]

SeedMandate(pos, stmt) ==
    [pos |-> pos, id |-> stmt.id, statement |-> stmt.statement,
     reason |-> stmt.context_rationale]

OpenQuestions ==
    <<"How to handle race conditions in concurrent workflows?",
      "Cache strategy for reference data (currencies, purpose codes)?",
      "Error granularity: store all errors or limit per file?">>

\* Every Design statement, whatever its context.
EnvDesignAll(list) == Where(list, LAMBDA st : st.type = "Design")

\* env_design of _generate_architect_seeds_md: the mandated design choices.
env_design(list) == Where(list, LAMBDA st : st.type = "Design" /\ IsEnv(st))

\* Section 1 listing the Environment-specific Design statements only.
DesignStmtsEnvOnly(list) == Where(list, LAMBDA st : st.type = "Design" /\ IsEnv(st))

\* design_stmts of _generate_architect_seeds_md: the design patterns.
design_stmts(list) == Where(list, LAMBDA st : st.type = "Design")

_generate_architect_seeds_md(list, now) ==
    [generated |-> now,
     design_patterns |-> Listing(list, design_stmts(list), SeedPattern),
     complex_flows |->
        Listing(list, Where(list, LAMBDA st : st.type = "Flow"), SeedFlow),
     mandated |-> Listing(list, env_design(list), SeedMandate),
     open_questions |-> OpenQuestions]

PmInputFile == "pm_input.md"

ContextFile == "project_context.yaml"

SeedsFile == "architect_seeds.md"

\* The artifact of one file, generated when the clock reads t.
Project(file, list, t) ==
    CASE file = PmInputFile -> _generate_pm_input_md(list, t)
      [] file = ContextFile -> _generate_context_yaml(list, t)
      [] file = SeedsFile -> _generate_architect_seeds_md(list, t)

\* The three artifacts generated in the order given, the k-th generation
\* reading the clock as now[k].
ProjectInOrder(list, order, now) ==
    [file \in {order[k] : k \in 1..Len(order)} |->
        Project(file, list, now[CHOOSE k \in 1..Len(order) : order[k] = file])]

_generate_outputs(list, now) ==
    ProjectInOrder(list, <<PmInputFile, ContextFile, SeedsFile>>, now)

\* Step 6 with a projection that reorders the list it is handed in place.
GenerateOutputsReversing ==
    /\ pc = "generate"
    /\ \E now \in ClockReadings : outputs' = _generate_outputs(enriched, now)
    /\ enriched' = [i \in 1..Len(enriched) |-> enriched[Len(enriched) + 1 - i]]
    /\ pc' = "save"
    /\ UNCHANGED <<calls, requirements, requirements_format, paths, readable, earlier,
                   last_call, exc, parsed_docs, doc_i, chunk_i, statements,
                   response, classified, type_counters, validation_errors, disk>>

GenerateOutputs ==
    /\ pc = "generate"
    /\ \E now \in ClockReadings : outputs' = _generate_outputs(enriched, now)
    /\ pc' = "save"
    /\ UNCHANGED <<calls, requirements, requirements_format, paths, readable, earlier, last_call, exc, parsed_docs, doc_i, chunk_i, statements, response,
                   classified, type_counters, enriched, validation_errors, disk>>

\* ------------------------------------------------------ step 7: _save_outputs

\* Every file of outputs is written under industry/output; run() then returns
\* outputs.  (A failing write is outside this model.)
SaveOutputs ==
    /\ pc = "save"
    /\ disk' = [f \in DOMAIN disk \cup DOMAIN outputs |->
                    IF f \in DOMAIN outputs THEN outputs[f] ELSE disk[f]]
    /\ pc' = "done"
    /\ UNCHANGED <<calls, requirements, requirements_format, paths, readable, earlier, last_call, exc, parsed_docs, doc_i, chunk_i, statements, response,
                   classified, type_counters, enriched, validation_errors,
                   outputs>>

\* ------------------------- downstream roles: loading the context document

\* The key whose list a role probes for.
ProbedKey(role) ==
    IF role = "LaravelProductManager" THEN "requirements" ELSE "constraints"

\* The key of the old format a role probes for next.
OldFormatKey(role) ==
    IF role = "LaravelProductManager" THEN "functional_requirements"
    ELSE "architectural_dos"

\* _detect_requirements_format of a role whose self.requirements is data.
_detect_requirements_format(role, data) ==
    IF ProbedKey(role) \in DOMAIN data /\ data[ProbedKey(role)].py = "list"
        THEN "yaml"
    ELSE IF OldFormatKey(role) \in DOMAIN data
        THEN "json"
    ELSE "json"

\* Most top-level keys of a requirements file of the old format.
MaxOldKeys == 4

OldKeys ==
    {"requirements", "constraints", "functional_requirements", "architectural_dos"}

\* What json.load returns for a requirements file of the old format: a dict
\* whose values are lists (empty or not), dicts or null.
OldFormatDocs ==
    UNION {[keys -> {PyList(<<>>), PyList(<<"item">>), PyDict(EmptyDict), PyNone}] :
                keys \in {K \in SUBSET OldKeys : Cardinality(K) <= MaxOldKeys}}

\* _load_requirements, option 1: industry/output/project_context.yaml exists
\* and is read with yaml.safe_load (the roles look under the directory the
\* ingestion wrote to).
LoadRequirements ==
    /\ pc = "done"
    /\ ~requirements.loaded
    /\ ContextFile \in DOMAIN disk
    /\ requirements' = [loaded |-> TRUE, data |-> yaml_safe_load(disk[ContextFile])]
    /\ UNCHANGED <<calls, requirements_format, pc, exc, paths, readable, parsed_docs,
                   doc_i, chunk_i, statements, last_call, response, classified,
                   type_counters, enriched, earlier, validation_errors, outputs,
                   disk>>

\* _load_requirements, option 2: no context document, the JSON file of the old
\* format is read with json.load.
LoadOldRequirements ==
    /\ pc = "no run"
    /\ ~requirements.loaded
    /\ ContextFile \notin DOMAIN disk
    /\ \E data \in OldFormatDocs : requirements' = [loaded |-> TRUE, data |-> data]
    /\ UNCHANGED <<calls, requirements_format, pc, exc, paths, readable, parsed_docs,
                   doc_i, chunk_i, statements, last_call, response, classified,
                   type_counters, enriched, earlier, validation_errors, outputs,
                   disk>>

\* self.requirements_format = self._detect_requirements_format(), in the
\* constructor of a role.
DetectFormat ==
    /\ requirements.loaded
    /\ \E role \in Roles :
        /\ requirements_format[role] = ""
        /\ requirements_format' =
              [requirements_format EXCEPT
                  ![role] = _detect_requirements_format(role, requirements.data)]
    /\ UNCHANGED <<calls, requirements, pc, exc, paths, readable, parsed_docs,
                   doc_i, chunk_i, statements, last_call, response, classified,
                   type_counters, enriched, earlier, validation_errors, outputs,
                   disk>>

\* self.requirements.get('requirements', []) of the product manager.
RequirementsList(data) ==
    IF "requirements" \in DOMAIN data THEN data["requirements"].v ELSE <<>>

\* intent_stmts and requirement_stmts of _update_constraints_from_yaml: the
\* records of the requirements list whose type is Intent / Requirement.
intent_stmts(data) ==
    SelectSeq(RequirementsList(data), LAMBDA r : Get(r, "type", None) = "Intent")

requirement_stmts(data) ==
    SelectSeq(RequirementsList(data), LAMBDA r : Get(r, "type", None) = "Requirement")

Next ==
    \/ ParseDocuments
    \/ SegmentChunk
    \/ SegmentReturn
    \/ ClassifyStatement
    \/ ClassifyReturn
    \/ EnrichStart
    \/ EnrichStatement
    \/ EnrichReturn
    \/ Validate
    \/ GenerateOutputs
    \/ SaveOutputs
    \/ LoadRequirements
    \/ LoadOldRequirements
    \/ DetectFormat

Spec == Init /\ [][Next]_vars

\* ------------------------------- enrichment alone, invoked twice on one list

\* Most statements of a classified list handed to _enrich_metadata on its own.
MaxEnrichLen == 2

\* Classified lists as _classify_statements builds them: record i carries
\* STMT-00i, a text, and the type and context of a reply or of the fallback.
EnrichChoices == {TextCsv, TextUi} \X ReplyTypes \X Contexts

EnrichInputs ==
    UNION {{[i \in 1..n |-> ClassifiedStmt(i, f[i][1], f[i][2], f[i][3], "because")] :
                f \in [1..n -> EnrichChoices]} : n \in 0..MaxEnrichLen}

InitEnrich ==
    /\ pc = "enrich"
    /\ exc = ""
    /\ paths = NoPaths
    /\ readable = {}
    /\ parsed_docs = <<>>
    /\ doc_i = 1
    /\ chunk_i = 1
    /\ classified \in EnrichInputs
    /\ statements = [i \in 1..Len(classified) |-> classified[i].statement]
    /\ last_call = NoCall
    /\ response = Unbound
    /\ type_counters = EmptyDict
    /\ enriched = <<>>
    /\ earlier = NotYet
    /\ validation_errors = <<>>
    /\ outputs = EmptyDict
    /\ disk = EmptyDict
    /\ requirements = NotLoaded
    /\ requirements_format = [role \in Roles |-> ""]
    /\ calls = NoCalls

\* The first invocation has returned its list; the same classified list is
\* handed to _enrich_metadata once more.
EnrichAgain ==
    /\ pc = "enrich_loop"
    /\ Len(enriched) = Len(classified)
    /\ earlier = NotYet
    /\ earlier' = [returned |-> TRUE, list |-> enriched]
    /\ pc' = "enrich"
    /\ UNCHANGED <<calls, requirements, requirements_format, paths, readable, last_call, exc, parsed_docs, doc_i, chunk_i,
                   statements, response, classified, type_counters, enriched,
                   validation_errors, outputs, disk>>

NextEnrich ==
    \/ EnrichStart
    \/ EnrichStatement
    \/ EnrichAgain

SpecEnrich == InitEnrich /\ [][NextEnrich]_vars

\* --------------------------- enrichment invoked run after run, on other lists

\* Most statements of the classified list of one run.
MaxRunLen == 2

\* The classified lists of the runs: each statement of one of the six types.
RunInputs ==
    UNION {{[i \in 1..n |-> ClassifiedStmt(i, TextUi, f[i], "Project-specific",
                                             "because")] :
                f \in [1..n -> Types]} : n \in 0..MaxRunLen}

InitRuns ==
    /\ pc = "enrich"
    /\ exc = ""
    /\ paths = NoPaths
    /\ readable = {}
    /\ parsed_docs = <<>>
    /\ doc_i = 1
    /\ chunk_i = 1
    /\ classified \in RunInputs
    /\ statements = [i \in 1..Len(classified) |-> classified[i].statement]
    /\ last_call = NoCall
    /\ response = Unbound
    /\ type_counters = EmptyDict
    /\ enriched = <<>>
    /\ earlier = NotYet
    /\ validation_errors = <<>>
    /\ outputs = EmptyDict
    /\ disk = EmptyDict
    /\ requirements = NotLoaded
    /\ requirements_format = [role \in Roles |-> ""]
    /\ calls = NoCalls

\* An invocation has returned its list; the next run hands _enrich_metadata
\* the classified list of its own corpus.
EnrichNextRun ==
    /\ pc = "enrich_loop"
    /\ Len(enriched) = Len(classified)
    /\ earlier' = [returned |-> TRUE, list |-> enriched]
    /\ classified' \in RunInputs
    /\ statements' = [i \in 1..Len(classified') |-> classified'[i].statement]
    /\ pc' = "enrich"
    /\ UNCHANGED <<calls, requirements, requirements_format, paths, readable, last_call, exc, parsed_docs, doc_i, chunk_i,
                   response, type_counters, enriched, validation_errors,
                   outputs, disk>>

NextRuns ==
    \/ EnrichStart
    \/ EnrichStatement
    \/ EnrichNextRun

SpecRuns == InitRuns /\ [][NextRuns]_vars

\* ------------------------------ enrichment of one statement of any wording

\* Most words of the statement whose priority is inferred.
MaxWords == 2

\* Words in upper, lower and mixed case: one holding each keyword of the two
\* tiers (mustard holds must inside a longer word), and one holding none.
PriorityWords ==
    {"MUST", "Shall", "required", "Mandatory", "CRITICAL", "mustard",
     "should", "Important", "Notification", "Status", "Dashboard"}

PriorityTexts == UNION {[1..n -> PriorityWords] : n \in 1..MaxWords}

\* Classified lists of one Requirement whose text is any of these wordings.
PriorityInputs ==
    {<<ClassifiedStmt(1, text, "Requirement", "Project-specific", "because")>> :
        text \in PriorityTexts}

InitPriority ==
    /\ pc = "enrich"
    /\ exc = ""
    /\ paths = NoPaths
    /\ readable = {}
    /\ parsed_docs = <<>>
    /\ doc_i = 1
    /\ chunk_i = 1
    /\ classified \in PriorityInputs
    /\ statements = [i \in 1..Len(classified) |-> classified[i].statement]
    /\ last_call = NoCall
    /\ response = Unbound
    /\ type_counters = EmptyDict
    /\ enriched = <<>>
    /\ earlier = NotYet
    /\ validation_errors = <<>>
    /\ outputs = EmptyDict
    /\ disk = EmptyDict
    /\ requirements = NotLoaded
    /\ requirements_format = [role \in Roles |-> ""]
    /\ calls = NoCalls

NextPriority ==
    \/ EnrichStart
    \/ EnrichStatement

SpecPriority == InitPriority /\ [][NextPriority]_vars

\* ------------------------------------- segmentation of one document of any text

\* Most lines of the document.
MaxLines == 3

\* Words a line can hold: none, one, half the budget of a chunk, the budget,
\* and one more than the budget.
LineWords ==
    {0, 1, SegmentMaxTokens \div 2, SegmentMaxTokens, SegmentMaxTokens + 1}

\* content.split of a text always gives one line at least.
ChunkContents == UNION {[1..n -> LineWords] : n \in 1..MaxLines}

InitChunk ==
    /\ pc = "segment"
    /\ exc = ""
    /\ paths = [NoPaths EXCEPT !.txt_paths = <<TxtFile>>]
    /\ readable = {TxtFile}
    /\ \E content \in ChunkContents :
            parsed_docs = <<Doc(TxtFile, "txt", content)>>
    /\ doc_i = 1
    /\ chunk_i = 1
    /\ statements = <<>>
    /\ last_call = NoCall
    /\ response = Unbound
    /\ classified = <<>>
    /\ type_counters = EmptyDict
    /\ enriched = <<>>
    /\ earlier = NotYet
    /\ validation_errors = <<>>
    /\ outputs = EmptyDict
    /\ disk = EmptyDict
    /\ requirements = NotLoaded
    /\ requirements_format = [role \in Roles |-> ""]
    /\ calls = NoCalls

NextChunk ==
    \/ SegmentChunk
    \/ SegmentReturn

SpecChunk == InitChunk /\ [][NextChunk]_vars

\* ------------------------------- segmentation of one chunk, whatever the reply

\* Most lines of the reply to a segmentation prompt.
MaxReplyLines == 2

\* Lines of a reply: with or without leading digits, one of the three markers
\* or a dash after them, no, one or two blanks, and text or nothing after.
ParseLines ==
    {Line(d, p, g, b) : d \in 0..1, p \in {".", ")", ":", "-"}, g \in 0..2,
                        b \in {<<>>, TextUi, TextCsv}}

ParseReplies == UNION {[1..n -> ParseLines] : n \in 0..MaxReplyLines}

ParseOutcomes == {Returned(r) : r \in ParseReplies}

SegmentChunkAnyReply == SegmentChunkOf(ParseOutcomes)

InitParse ==
    /\ pc = "segment"
    /\ exc = ""
    /\ paths = [NoPaths EXCEPT !.pdf_paths = <<PdfFile>>]
    /\ readable = {}
    /\ parsed_docs = <<Doc(PdfFile, "pdf", ContentStub)>>
    /\ doc_i = 1
    /\ chunk_i = 1
    /\ statements = <<>>
    /\ last_call = NoCall
    /\ response = Unbound
    /\ classified = <<>>
    /\ type_counters = EmptyDict
    /\ enriched = <<>>
    /\ earlier = NotYet
    /\ validation_errors = <<>>
    /\ outputs = EmptyDict
    /\ disk = EmptyDict
    /\ requirements = NotLoaded
    /\ requirements_format = [role \in Roles |-> ""]
    /\ calls = NoCalls

NextParse ==
    \/ SegmentChunkAnyReply
    \/ SegmentReturn

SpecParse == InitParse /\ [][NextParse]_vars

\* ------------------------------ enrichment and validation of a larger corpus

\* Most statements of the corpus: the least size at which a share of exactly
\* 15% exists (3 of 20).
MaxCorpus == 20

\* The classified list of a corpus of n statements of which the first req are
\* Requirements (the others Flows) and the last env Environment-specific.
Corpus(n, req, env) ==
    [i \in 1..n |->
        ClassifiedStmt(i, TextUi,
                       IF i <= req THEN "Requirement" ELSE "Flow",
                       IF i > n - env THEN "Environment-specific"
                                      ELSE "Project-specific",
                       "because")]

InitValidate ==
    /\ pc = "enrich"
    /\ exc = ""
    /\ paths = NoPaths
    /\ readable = {}
    /\ parsed_docs = <<>>
    /\ doc_i = 1
    /\ chunk_i = 1
    /\ \E n \in 0..MaxCorpus : \E req \in 0..n, env \in 0..n :
            classified = Corpus(n, req, env)
    /\ statements = [i \in 1..Len(classified) |-> classified[i].statement]
    /\ last_call = NoCall
    /\ response = Unbound
    /\ type_counters = EmptyDict
    /\ enriched = <<>>
    /\ earlier = NotYet
    /\ validation_errors = <<>>
    /\ outputs = EmptyDict
    /\ disk = EmptyDict
    /\ requirements = NotLoaded
    /\ requirements_format = [role \in Roles |-> ""]
    /\ calls = NoCalls

NextValidate ==
    \/ EnrichStart
    \/ EnrichStatement
    \/ EnrichReturn
    \/ Validate

SpecValidate == InitValidate /\ [][NextValidate]_vars

\* ------------------------------------------------------------------ properties

ArtifactFiles == {PmInputFile, ContextFile, SeedsFile}

\* C1: every run completes without raising and returns exactly the three
\* artifacts pm_input.md, project_context.yaml and architect_seeds.md, whatever
\* the documents and the calls to the inference service do.
C1_RunReturnsThreeArtifacts ==
    /\ pc # "raised"
    /\ (pc = "done" => DOMAIN outputs = ArtifactFiles)

\* C2: once classified, and in every later stage, every statement has a type
\* among the six and a context among the two, whatever the service returned.
C2_TypeAndContextClosed ==
    /\ \A i \in 1..Len(classified) :
          classified[i].type \in Types /\ classified[i].context \in Contexts
    /\ \A i \in 1..Len(enriched) :
          enriched[i].type \in Types /\ enriched[i].context \in Contexts

\* A reply holds a structured object with the required fields when some stretch
\* of it is a well-formed object that has them.
HoldsClassification(text) ==
    \E i \in 1..Len(text), j \in 1..Len(text) :
        /\ i < j
        /\ IsJsonObject(SubSeq(text, i, j))
        /\ RequiredFields \subseteq ObjectKeys(SubSeq(text, i, j))

CallFailed(call) ==
    \/ call.kind = "raise"
    \/ call.kind = "return" /\ ~HoldsClassification(call.text)

\* C3: when the classification call for a statement raises, or returns text
\* holding no structured object with the required fields, that statement is
\* appended as Requirement / Project-specific with an error rationale, the
\* records of the other statements stay as they are, and the loop goes on
\* without raising.
C3_FailedCallFallsBack ==
    [][(/\ pc = "classify"
        /\ Len(classified) < Len(statements)
        /\ CallFailed(last_call'))
       => /\ pc' = "classify"
          /\ \E r \in {RationaleLLMError, RationaleError} :
                classified' = Append(classified,
                    [id |-> [prefix |-> "STMT", num |-> Format03d(Len(classified) + 1)],
                     statement |-> statements[Len(classified) + 1],
                     type |-> "Requirement",
                     context |-> "Project-specific",
                     context_rationale |-> r])]_vars

\* How many of the first i enriched statements carry the prefix of the i-th.
SamePrefixUpTo(i) ==
    Cardinality({j \in 1..i : enriched[j].id.prefix = enriched[i].id.prefix})

\* C4: no two enriched statements with the same identifier prefix have the same
\* identifier, and for each prefix the counters, in original statement order,
\* are 1, 2, 3, ... without gaps.
C4_IdsUniqueAndContiguousPerPrefix ==
    /\ \A i, j \in 1..Len(enriched) :
          (i # j /\ enriched[i].id.prefix = enriched[j].id.prefix)
              => enriched[i].id # enriched[j].id
    /\ \A i \in 1..Len(enriched) :
          DigitsValue(enriched[i].id.num) = SamePrefixUpTo(i)

\* How many of the first i classified statements have the type of the i-th.
SameTypeUpTo(i) ==
    Cardinality({j \in 1..i : classified[j].type = classified[i].type})

PrefixOfType ==
    [t \in Types |->
        CASE t = "Intent" -> "INT" [] t = "Requirement" -> "REQ"
          [] t = "Constraint" -> "CON" [] t = "Flow" -> "FLOW"
          [] t = "Interface" -> "INT" [] t = "Design" -> "DES"]

\* C5: the k-th statement of a type, in original order, gets that type's prefix
\* (Intent INT, Requirement REQ, Constraint CON, Flow FLOW, Interface INT,
\* Design DES) and the counter k as three zero-padded digits; a statement of one
\* type never advances the counter of another type.
C5_IdIsPrefixAndPerTypeCounter ==
    /\ \A i \in 1..Len(enriched) :
          /\ enriched[i].id.prefix = PrefixOfType[classified[i].type]
          /\ Len(enriched[i].id.num) = 3
          /\ DigitsValue(enriched[i].id.num) = SameTypeUpTo(i)
    /\ pc = "enrich_loop" =>
          \A t \in Types :
              type_counters[t] =
                  Cardinality({j \in 1..Len(enriched) : classified[j].type = t})

C5_Witness ==
    /\ pc = "done"
    /\ Len(enriched) = 2
    /\ enriched[1].type = "Intent"
    /\ enriched[2].type = "Interface"
    /\ enriched[1].id = [prefix |-> "INT", num |-> <<0, 0, 1>>]
    /\ enriched[2].id = [prefix |-> "INT", num |-> <<0, 0, 1>>]
    /\ type_counters["Intent"] = 1 /\ type_counters["Interface"] = 1
    /\ type_counters["Requirement"] = 0

Range(seq) == {seq[k] : k \in 1..Len(seq)}

RoutingTable ==
    [t \in Types |->
        CASE t = "Intent" -> {"PM_Input"}
          [] t = "Requirement" -> {"PM_Input", "Context"}
          [] t \in {"Constraint", "Flow", "Interface"} -> {"Context"}
          [] t = "Design" -> {"Architect_Seeds"}]

\* C7: the routing set of an enriched statement is the table's entry for its
\* type (Intent: goals; Requirement: goals and context; Constraint, Flow,
\* Interface: context; Design: design seed), so no Constraint is routed to the
\* goals document.
C7_RoutingIsTableOfType ==
    \A i \in 1..Len(enriched) :
        /\ Range(enriched[i].routing) = RoutingTable[enriched[i].type]
        /\ Len(enriched[i].routing) = Cardinality(RoutingTable[enriched[i].type])
        /\ enriched[i].type = "Constraint" => "PM_Input" \notin Range(enriched[i].routing)

C7_Witness ==
    /\ pc = "done"
    /\ Len(enriched) = 2
    /\ enriched[1].type = "Constraint"
    /\ enriched[1].routing = <<"Context">>
    /\ enriched[2].type = "Requirement"
    /\ enriched[2].routing = <<"PM_Input", "Context">>

\* The artifacts exist (run() is past _generate_outputs).
Projected == pc \in {"save", "done"}

\* The places (in the enriched list) of the statements a listing shows.
Shown(listing) == {listing[j].pos : j \in 1..Len(listing)}

PmDoc == outputs[PmInputFile]

\* The context document as a reader of the file gets it.
ContextDoc ==
    LET data == yaml_safe_load(outputs[ContextFile])
    IN  [key \in DOMAIN data |-> data[key].v]

SeedsDoc == outputs[SeedsFile]

PmRequirementsShown ==
    UNION {Shown(PmDoc.requirements[c].stmts) : c \in 1..Len(PmDoc.requirements)}

\* The statements that appear in the artifact a routing destination names.
ShownIn(dest) ==
    CASE dest = "PM_Input" ->
            Shown(PmDoc.intent) \cup PmRequirementsShown \cup Shown(PmDoc.interfaces)
      [] dest = "Context" ->
            Shown(ContextDoc.requirements) \cup Shown(ContextDoc.constraints)
                \cup Shown(ContextDoc.flows) \cup Shown(ContextDoc.interfaces)
                \cup Shown(ContextDoc.design_mandates)
      [] dest = "Architect_Seeds" ->
            Shown(SeedsDoc.design_patterns) \cup Shown(SeedsDoc.complex_flows)
                \cup Shown(SeedsDoc.mandated)

Destinations == {"PM_Input", "Context", "Architect_Seeds"}

\* C8 as claimed: a statement appears in an artifact if and only if the artifact
\* is in its routing set.
C8_AppearsIffRouted ==
    Projected =>
        \A i \in 1..Len(enriched), dest \in Destinations :
            (i \in ShownIn(dest)) <=> (dest \in Range(enriched[i].routing))

\* The projections that go beyond the routing set.
Repeated(stmt, dest) ==
    \/ dest = "Architect_Seeds" /\ stmt.type = "Flow"
    \/ dest = "PM_Input" /\ stmt.type = "Interface"
          /\ stmt.interface_type \in {"UI", "CSV"}
    \/ dest = "Context" /\ stmt.type = "Design"
          /\ stmt.context = "Environment-specific"

\* C8 as amended: a statement appears in every artifact of its routing set, and
\* in an artifact outside it in exactly three cases: a Flow in the design-seed
\* document, an Interface of kind UI or CSV in the goals document, an
\* Environment-specific Design in the context document.
C8_AppearsIffRoutedOrRepeated ==
    Projected =>
        \A i \in 1..Len(enriched), dest \in Destinations :
            (i \in ShownIn(dest))
                <=> (\/ dest \in Range(enriched[i].routing)
                     \/ Repeated(enriched[i], dest))

C8_Witness ==
    /\ pc = "done"
    /\ Len(enriched) = 2
    /\ enriched[1].type = "Flow"
    /\ 1 \in ShownIn("Architect_Seeds") /\ 1 \in ShownIn("Context")
    /\ enriched[2].type = "Interface"
    /\ enriched[2].interface_type = "API"
    /\ 2 \notin ShownIn("PM_Input") /\ 2 \in ShownIn("Context")

\* The Requirements list of the context document holds each Requirement
\* statement once, in original order, and no statement of another type.
RequirementsListExact ==
    LET reqs == ContextDoc.requirements
    IN  /\ \A j \in 1..Len(reqs) :
              /\ reqs[j].pos \in 1..Len(enriched)
              /\ enriched[reqs[j].pos].type = "Requirement"
              /\ reqs[j].type = "Requirement"
              /\ reqs[j].id = enriched[reqs[j].pos].id
              /\ reqs[j].statement = enriched[reqs[j].pos].statement
        /\ \A j, k \in 1..Len(reqs) : j < k => reqs[j].pos < reqs[k].pos
        /\ \A i \in 1..Len(enriched) :
              enriched[i].type = "Requirement" => i \in Shown(reqs)

\* C9 as claimed: the Requirements list is exactly the Requirement statements,
\* and the count the document reports (its only count of statements is the
\* metadata's total_statements) matches the length of that list.
C9_RequirementsListAndReportedCount ==
    Projected =>
        /\ RequirementsListExact
        /\ ContextDoc.project_metadata.total_statements
              = Len(ContextDoc.requirements)

\* C9 as amended: the Requirements list is exactly the Requirement statements
\* (each once, in original order, none of another type); the document reports
\* no count of that list: total_statements counts all enriched statements, and
\* the list is as long as there are Requirement statements.
C9_RequirementsListExactTotalCountsAll ==
    Projected =>
        /\ RequirementsListExact
        /\ ContextDoc.project_metadata.total_statements = Len(enriched)
        /\ Len(ContextDoc.requirements)
              = Cardinality({i \in 1..Len(enriched) :
                                enriched[i].type = "Requirement"})

C9_Witness ==
    /\ pc = "done"
    /\ Len(enriched) = 2
    /\ enriched[1].type = "Constraint"
    /\ enriched[2].type = "Requirement"
    /\ Len(ContextDoc.requirements) = 1
    /\ ContextDoc.requirements[1].pos = 2
    /\ ContextDoc.project_metadata.total_statements = 2

\* The listings of the three artifacts other than the Constraints list.
OtherListings ==
    {PmDoc.intent, PmDoc.interfaces,
     ContextDoc.requirements, ContextDoc.flows, ContextDoc.interfaces,
     ContextDoc.design_mandates,
     SeedsDoc.design_patterns, SeedsDoc.complex_flows, SeedsDoc.mandated}

\* C10: every statement classified Constraint, whatever its context, appears
\* exactly once in the Constraints list of the context document and in no other
\* listing of the context, goals or design-seed document.
C10_ConstraintOnlyInConstraintsList ==
    Projected =>
        \A i \in 1..Len(enriched) :
            enriched[i].type = "Constraint" =>
                /\ Cardinality({j \in 1..Len(ContextDoc.constraints) :
                                    ContextDoc.constraints[j].pos = i}) = 1
                /\ \A j \in 1..Len(ContextDoc.constraints) :
                      ContextDoc.constraints[j].pos = i =>
                          /\ ContextDoc.constraints[j].id = enriched[i].id
                          /\ ContextDoc.constraints[j].statement
                                = enriched[i].statement
                /\ i \notin PmRequirementsShown
                /\ \A listing \in OtherListings : i \notin Shown(listing)

C10_Witness ==
    /\ pc = "done"
    /\ Len(enriched) = 2
    /\ enriched[1].type = "Constraint" /\ enriched[1].context = OtherContext
    /\ enriched[2].type = "Constraint"
    /\ enriched[2].context = "Project-specific"
    /\ Shown(ContextDoc.constraints) = {1, 2}

\* The places a listing shows, in the order it shows them.
Order(listing) == [j \in 1..Len(listing) |-> listing[j].pos]

\* How many entries of a listing show the statement at place i.
Times(listing, i) == Cardinality({j \in 1..Len(listing) : listing[j].pos = i})

\* C11: every Design statement appears in the design-seed document's pattern
\* section; it appears in that document's mandated-choices section and in the
\* context document's design mandates exactly when its context is
\* Environment-specific, and the two mandate listings name the same statements
\* (same places, same identifiers, same texts) in the same order.
C11_DesignPatternsAndMandates ==
    Projected =>
        /\ \A i \in 1..Len(enriched) :
              enriched[i].type = "Design" =>
                /\ Times(SeedsDoc.design_patterns, i) = 1
                /\ (i \in Shown(SeedsDoc.mandated)) <=> IsEnv(enriched[i])
                /\ (i \in Shown(ContextDoc.design_mandates)) <=> IsEnv(enriched[i])
        /\ Order(SeedsDoc.mandated) = Order(ContextDoc.design_mandates)
        /\ \A j \in 1..Len(SeedsDoc.mandated) :
              /\ SeedsDoc.mandated[j].id = ContextDoc.design_mandates[j].id
              /\ SeedsDoc.mandated[j].statement
                    = ContextDoc.design_mandates[j].statement

\* A run has projected a Project-specific Design statement followed by an
\* Environment-specific one: both are patterns, the second alone is mandated.
C11_Witness ==
    /\ pc = "done"
    /\ Len(enriched) = 2
    /\ enriched[1].type = "Design" /\ enriched[1].context = "Project-specific"
    /\ enriched[2].type = "Design" /\ IsEnv(enriched[2])
    /\ Order(SeedsDoc.design_patterns) = <<1, 2>>
    /\ Order(SeedsDoc.mandated) = <<2>>
    /\ Order(ContextDoc.design_mandates) = <<2>>

\* The validator has returned (to a run that has not raised since).
Validated == pc \in {"generate", "save", "done"}

NoIntent == \A i \in 1..Len(enriched) : enriched[i].type # "Intent"

\* The warnings of one check among those the validator returned.
WarningsOf(check) ==
    {j \in 1..Len(validation_errors) : validation_errors[j].check = check}

\* A run that has raised did so before enrichment returned its list.
RaisedBeforeValidation ==
    pc = "raised" =>
        \/ Len(classified) < Len(statements)
        \/ Len(enriched) < Len(classified)

C13_ValidatorNeverHalts ==
    [][ /\ (pc = "validate") =>
              /\ pc' = "generate"
              /\ exc' = ""
              /\ enriched' = enriched
        /\ (pc = "generate") =>
              /\ pc' = "save"
              /\ validation_errors' = validation_errors
              /\ DOMAIN outputs' = ArtifactFiles
        /\ (pc = "save") =>
              /\ pc' = "done"
              /\ DOMAIN disk' = ArtifactFiles ]_vars

\* Finished runs with every number of warnings the validator can return: the
\* empty set (three warnings), and a statement with an empty context (a FAIL
\* entry besides the warnings).
C13_Witness ==
    /\ pc = "done"
    /\ DOMAIN disk = ArtifactFiles
    /\ Len(enriched) = 1
    /\ enriched[1].context = NoContext
    /\ Len(validation_errors) = 4
    /\ validation_errors[1].check = "FAIL missing type or context"

\* A finished run over no statements at all.
C13_WitnessEmpty ==
    /\ pc = "done"
    /\ enriched = <<>>
    /\ Len(validation_errors) = 3

\* _segment_documents is about to make the call for a chunk.
ChunkPending == pc = "segment" /\ doc_i <= Len(parsed_docs)

\* The chunk after the pending one, in document order and chunk order.
FollowingChunk ==
    IF chunk_i < Len(content_chunks) THEN <<doc_i, chunk_i + 1>>
    ELSE <<doc_i + 1, 1>>

\* C14: when the segmentation call for a chunk raises, the chunk contributes
\* no statement and segmentation continues with the following chunk (of the
\* same or of the next document): the statements gathered from earlier chunks
\* are kept, and a chunk whose call returns has its statements appended after
\* them, so the statements come in document order and chunk order.
C14_FailedChunkIsDropped ==
    [][ ChunkPending =>
          /\ pc' = "segment"
          /\ exc' = ""
          /\ parsed_docs' = parsed_docs
          /\ <<doc_i', chunk_i'>> = FollowingChunk
          /\ (last_call'.kind = "raise") => statements' = statements
          /\ (last_call'.kind = "return") =>
                /\ Len(statements') >= Len(statements)
                /\ SubSeq(statements', 1, Len(statements)) = statements
                /\ SubSeq(statements', Len(statements) + 1, Len(statements'))
                      = _parse_numbered_list(last_call'.text) ]_vars

\* The call for the second chunk of a document has raised after the first
\* chunk gave a statement, which is kept, and another document is still to be
\* segmented.
C14_Witness ==
    /\ pc = "segment"
    /\ last_call.kind = "raise"
    /\ Len(parsed_docs) >= 2
    /\ parsed_docs[1].source = TxtFile
    /\ doc_i = 2 /\ chunk_i = 1
    /\ Len(statements) = 1

\* The listed paths of one kind that cannot be read.
Unreadable(listed) == {k \in 1..Len(listed) : listed[k] \notin readable}

\* The records loaded from a path as a document of a kind.
RecordsOf(path, type) ==
    {j \in 1..Len(parsed_docs) :
        parsed_docs[j].source = path /\ parsed_docs[j].type = type}

\* C15: a text or markdown source that cannot be read yields no record and
\* does not stop loading: every other listed source yields exactly one record
\* carrying its path, its kind and its content (for a PDF or PPTX source the
\* placeholder that stands for its content), so the number of records is the
\* number of listed sources minus the unreadable ones.
C15_UnreadableSourceIsSkipped ==
    (pc = "segment") =>
        /\ \A k \in 1..Len(paths.txt_paths) :
              LET path == paths.txt_paths[k]
              IN  IF path \in readable
                    THEN /\ Cardinality(RecordsOf(path, "txt")) = 1
                         /\ \A j \in RecordsOf(path, "txt") :
                                parsed_docs[j].content = FileContent(path)
                    ELSE RecordsOf(path, "txt") = {}
        /\ \A k \in 1..Len(paths.md_paths) :
              LET path == paths.md_paths[k]
              IN  IF path \in readable
                    THEN /\ Cardinality(RecordsOf(path, "md")) = 1
                         /\ \A j \in RecordsOf(path, "md") :
                                parsed_docs[j].content = FileContent(path)
                    ELSE RecordsOf(path, "md") = {}
        /\ \A k \in 1..Len(paths.pdf_paths) :
              /\ Cardinality(RecordsOf(paths.pdf_paths[k], "pdf")) = 1
              /\ \A j \in RecordsOf(paths.pdf_paths[k], "pdf") :
                    parsed_docs[j].content = ContentStub
        /\ \A k \in 1..Len(paths.pptx_paths) :
              /\ Cardinality(RecordsOf(paths.pptx_paths[k], "pptx")) = 1
              /\ \A j \in RecordsOf(paths.pptx_paths[k], "pptx") :
                    parsed_docs[j].content = ContentStub
        /\ Len(parsed_docs)
              = Len(paths.txt_paths) + Len(paths.md_paths)
                  + Len(paths.pdf_paths) + Len(paths.pptx_paths)
                  - Cardinality(Unreadable(paths.txt_paths))
                  - Cardinality(Unreadable(paths.md_paths))

\* Two text files, a markdown file and a PDF are listed; the first text file
\* and the markdown file cannot be read, and the other two are loaded.
C15_Witness ==
    /\ pc = "segment"
    /\ paths.txt_paths = <<ExtraTxtFile, TxtFile>>
    /\ paths.md_paths = <<MdFile>>
    /\ paths.pdf_paths = <<PdfFile>>
    /\ paths.pptx_paths = <<>>
    /\ readable = {TxtFile}
    /\ Len(parsed_docs) = 2
    /\ parsed_docs[1] = Doc(TxtFile, "txt", ContentLong)
    /\ parsed_docs[2] = Doc(PdfFile, "pdf", ContentStub)

\* The stages of run() in the order of its steps 1 to 7 (enrichment being the
\* start of _enrich_metadata and its loop), and the end of the run.
StageOrder ==
    <<"parse", "segment", "classify", "enrich", "enrich_loop", "validate",
      "generate", "save", "done">>

StageOf(p) == CHOOSE k \in 1..Len(StageOrder) : StageOrder[k] = p

\* C16: the stages of a run execute strictly in the order load, segment,
\* classify, enrich, validate, project, persist, each for the whole corpus
\* before the next starts: a run only moves from a stage to the one after it
\* (or ends in an exception); no classification call is issued before the last
\* segmentation call has returned, no identifier is assigned before the last
\* classification call has returned, validation starts after the last
\* statement is enriched, and no artifact is written before all three have
\* been generated.
C16_StagesInOrder ==
    [][ /\ (pc' # pc /\ pc' # "raised") =>
              /\ pc # "raised" /\ pc # "done"
              /\ StageOf(pc') = StageOf(pc) + 1
        /\ (statements' # statements) => (pc = "segment" /\ pc' = "segment")
        /\ (classified' # classified) => (pc = "classify" /\ pc' = "classify")
        /\ (pc = "classify") => (doc_i > Len(parsed_docs) /\ parsed_docs = <<>>)
        /\ (pc = "segment" /\ pc' = "classify") => doc_i > Len(parsed_docs)
        /\ (enriched' # enriched) =>
              /\ pc = "enrich_loop" /\ pc' = "enrich_loop"
              /\ Len(classified) = Len(statements)
        /\ (pc' = "validate") => Len(enriched) = Len(classified)
        /\ (validation_errors' # validation_errors) => pc = "validate"
        /\ (outputs' # outputs) => pc = "generate"
        /\ (disk' # disk) => (pc = "save" /\ DOMAIN outputs = ArtifactFiles) ]_vars

\* A run over two statements has gone through every stage.
C16_Witness ==
    /\ pc = "done"
    /\ Len(statements) = 2
    /\ Len(classified) = 2
    /\ Len(enriched) = 2
    /\ DOMAIN disk = ArtifactFiles

\* The enriched record at place i has the text, type, context and rationale
\* of the classified record at place i, and every field of that record.
CarriesClassification(i) ==
    /\ DOMAIN classified[i] \subseteq DOMAIN enriched[i]
    /\ enriched[i].statement = classified[i].statement
    /\ enriched[i].type = classified[i].type
    /\ enriched[i].context = classified[i].context
    /\ enriched[i].context_rationale = classified[i].context_rationale

\* C17 (as stated): for every position i the enriched record has the same
\* sequential ordinal, statement text, type, context and rationale as the
\* classified record at position i, the enricher only adding fields.
C17_EnrichedKeepsOrdinalAndClassification ==
    \A i \in 1..Len(enriched) :
        /\ CarriesClassification(i)
        /\ enriched[i].id = classified[i].id

\* C17 (amended): for every position i the enriched record has the same
\* statement text, type, context and rationale as the classified record at
\* position i; its sequential ordinal STMT-nnn is replaced, under the same key,
\* by the type-scoped identifier, and the other fields of the enriched record
\* are added ones.
C17_EnrichedKeepsClassificationReplacesOrdinal ==
    \A i \in 1..Len(enriched) :
        /\ CarriesClassification(i)
        /\ classified[i].id = StmtId("STMT", i)
        /\ enriched[i].id.prefix = type_prefixes(classified[i].type)
        /\ enriched[i].id # classified[i].id
        /\ {"routing", "priority"} \subseteq DOMAIN enriched[i] \ DOMAIN classified[i]

\* Two statements have been enriched: the records keep text and
\* classification, and carry REQ-001 and CON-001 where STMT-001 and STMT-002
\* were.
C17_Witness ==
    /\ pc = "validate"
    /\ Len(enriched) = 2
    /\ classified[1].id = StmtId("STMT", 1)
    /\ classified[2].id = StmtId("STMT", 2)
    /\ enriched[1].id = StmtId("REQ", 1)
    /\ enriched[2].id = StmtId("CON", 1)
    /\ enriched[1].statement = classified[1].statement
    /\ enriched[2].context_rationale = classified[2].context_rationale

\* C18: the per-type counters are scoped to one invocation of the enricher:
\* in every run of a sequence of runs, the first statement of each type gets
\* counter 1, whatever number of statements of that type earlier runs
\* enriched.
C18_CountersRestartEveryRun ==
    (pc = "enrich_loop") =>
        \A i \in 1..Len(enriched) :
            (\A j \in 1..(i - 1) : enriched[j].type # enriched[i].type)
                => DigitsValue(enriched[i].id.num) = 1

\* The run before enriched two Requirement statements (REQ-001, REQ-002);
\* this run has enriched its only statement, a Requirement, as REQ-001.
C18_Witness ==
    /\ pc = "enrich_loop"
    /\ earlier.returned
    /\ Len(earlier.list) = 2
    /\ earlier.list[1].type = "Requirement"
    /\ earlier.list[2].id = StmtId("REQ", 2)
    /\ Len(classified) = 1
    /\ Len(enriched) = 1
    /\ enriched[1].id = StmtId("REQ", 1)

\* The orders the three projections can be run in.
Orders ==
    {order \in [1..3 -> ArtifactFiles] :
        \A a, b \in 1..3 : order[a] = order[b] => a = b}

\* The clock readings of the three generations behind a set of artifacts, in
\* the order _generate_outputs makes them.
Readings(outs) ==
    <<outs[PmInputFile].generated,
      yaml_safe_load(outs[ContextFile])["project_metadata"].v.generated,
      outs[SeedsFile].generated>>

\* A record without its time stamp.
Undated(r) == [k \in DOMAIN r \ {"generated"} |-> r[k]]

\* The artifacts without their time stamps.
UndatedAll(outs) ==
    [file \in DOMAIN outs |->
        IF file = ContextFile
            THEN [k \in 1..Len(outs[file]) |->
                    IF outs[file][k].key = "project_metadata"
                        THEN [key |-> outs[file][k].key,
                              node |-> [form |-> outs[file][k].node.form,
                                        v |-> Undated(outs[file][k].node.v)]]
                        ELSE outs[file][k]]
            ELSE Undated(outs[file])]

\* No stage changes the collection it is handed.
StagesLeaveInputs ==
    /\ (pc = "segment" /\ pc' = "segment") => parsed_docs' = parsed_docs
    /\ (pc = "classify") => statements' = statements
    /\ (pc \in {"enrich", "enrich_loop", "validate", "generate", "save"}) =>
            classified' = classified
    /\ (pc \in {"validate", "generate", "save"}) => enriched' = enriched

\* C19 (as stated): no stage modifies the collection it receives (the
\* classified list is unchanged by enrichment, the enriched set by the three
\* projections), so each artifact is the same whichever order the three
\* projections are run in.
C19_InputsUntouchedArtifactsSameInAnyOrder ==
    [][ /\ StagesLeaveInputs
        /\ (pc = "generate") =>
              \A order \in Orders :
                  ProjectInOrder(enriched, order, Readings(outputs')) = outputs' ]_vars

\* C19 (amended): no stage modifies the collection it receives, so each
\* artifact is, but for its generated time stamp, the same whichever order
\* the three projections are run in; the time stamp is the reading of the
\* clock when that artifact is generated.
C19_InputsUntouchedArtifactsSameButForTimeStamp ==
    [][ /\ StagesLeaveInputs
        /\ (pc = "generate") =>
              \A order \in Orders :
                  UndatedAll(ProjectInOrder(enriched, order, Readings(outputs')))
                      = UndatedAll(outputs') ]_vars

\* Two statements have been projected while the clock moved on: the goals
\* document is stamped 0 and the design-seed document 1.
C19_Witness ==
    /\ pc = "save"
    /\ Len(enriched) = 2
    /\ Len(classified) = 2
    /\ PmDoc.generated = 0
    /\ SeedsDoc.generated = 1

\* data has a list under key.
ListShaped(data, key) == key \in DOMAIN data /\ data[key].py = "list"

\* C20: every context document the pipeline produces is detected as the new
\* format by both downstream roles (the product manager probing for a list
\* under requirements, the architect for a list under constraints), also
\* when it holds no Requirement or no Constraint statement; a role treats a
\* document as the old format exactly when it lacks that list-shaped key.
C20_ContextDocumentDetectedAsNewFormat ==
    /\ Projected =>
            \A role \in Roles :
                _detect_requirements_format(role, yaml_safe_load(outputs[ContextFile]))
                    = "yaml"
    /\ (pc = "done" /\ requirements.loaded) =>
            \A role \in Roles : requirements_format[role] \in {"", "yaml"}
    /\ \A role \in Roles :
            requirements_format[role] # "" =>
                (requirements_format[role] = "json"
                    <=> ~ListShaped(requirements.data, ProbedKey(role)))

\* Both roles have loaded the context document of a run over one Intent
\* statement, whose requirements and constraints lists are empty, and found
\* it to be of the new format.
C20_Witness ==
    /\ pc = "done"
    /\ Len(enriched) = 1
    /\ requirements.loaded
    /\ requirements.data["requirements"] = PyList(<<>>)
    /\ requirements.data["constraints"] = PyList(<<>>)
    /\ \A role \in Roles : requirements_format[role] = "yaml"

\* --------------------------------------------------------------------- C21

\* The words of a text whose lower-cased spelling holds one of the keywords.
WordsHolding(text, keywords) ==
    {i \in 1..Len(text) : KeywordsOf(text[i]) \cap keywords # {}}

\* C21: the priority of every statement is exactly one of P0, P1, P2: P0 when
\* its text holds, in any case, one of must, shall, required, mandatory,
\* critical, also when it holds P1 keywords as well; otherwise P1 when it
\* holds one of should, important, notification, status; otherwise P2.
C21_PriorityByStrictPrecedence ==
    \A i \in 1..Len(enriched) :
        LET text == enriched[i].statement
            p0 == WordsHolding(text, {"must", "shall", "required", "mandatory",
                                      "critical"}) # {}
            p1 == WordsHolding(text, {"should", "important", "notification",
                                      "status"}) # {}
        IN  /\ enriched[i].priority \in {"P0", "P1", "P2"}
            /\ enriched[i].priority = "P0" <=> p0
            /\ enriched[i].priority = "P1" <=> (~p0 /\ p1)
            /\ enriched[i].priority = "P2" <=> (~p0 /\ ~p1)

\* A statement whose first word holds a P1 keyword and whose second a P0
\* keyword in upper case has been given P0.
C21_Witness ==
    /\ Len(enriched) = 1
    /\ enriched[1].statement = <<"Status", "CRITICAL">>
    /\ enriched[1].priority = "P0"

\* --------------------------------------------------------------------- C22

\* The newline between two lines of a text whose lines are word counts.
NewLine == -1

\* '\n'.join(texts).
RECURSIVE JoinNewline(_)
JoinNewline(texts) ==
    IF texts = <<>> THEN <<>>
    ELSE IF Len(texts) = 1 THEN texts[1]
    ELSE texts[1] \o <<NewLine>> \o JoinNewline(Tail(texts))

\* The text of a sequence of lines.
TextOf(lines) == JoinNewline([k \in 1..Len(lines) |-> <<lines[k]>>])

\* The words of a chunk.
RECURSIVE WordsIn(_)
WordsIn(chunk) ==
    IF chunk = <<>> THEN 0 ELSE Head(chunk) + WordsIn(Tail(chunk))

\* C22: the chunks of a document partition its lines in order (every line is
\* whole in exactly one chunk, so the chunks joined with newlines are the
\* text); a chunk ends before a line only when that line would take it over
\* the budget of whitespace tokens, and a chunk of two or more lines holds
\* at most the budget.
C22_ChunksPartitionLinesWithinBudget ==
    (pc = "segment" /\ doc_i <= Len(parsed_docs)) =>
        LET lines == parsed_docs[doc_i].content
            chunks == content_chunks
        IN  /\ \A k \in 1..Len(chunks) : chunks[k] # <<>>
            /\ JoinNewline([k \in 1..Len(chunks) |-> TextOf(chunks[k])])
                    = TextOf(lines)
            /\ \A k \in 1..(Len(chunks) - 1) :
                    WordsIn(chunks[k]) + chunks[k + 1][1] > SegmentMaxTokens
            /\ \A k \in 1..Len(chunks) :
                    Len(chunks[k]) >= 2 => WordsIn(chunks[k]) <= SegmentMaxTokens

\* The call for the second chunk of a document of three lines comes next:
\* two lines of half the budget fill the first chunk exactly, the third line
\* of one word did not fit.
C22_Witness ==
    /\ pc = "segment"
    /\ doc_i = 1
    /\ chunk_i = 2
    /\ parsed_docs[1].content
            = <<SegmentMaxTokens \div 2, SegmentMaxTokens \div 2, 1>>
    /\ content_chunks
            = << <<SegmentMaxTokens \div 2, SegmentMaxTokens \div 2>>, <<1>> >>

\* --------------------------------------------------------------------- C23

\* A call for a chunk has just returned a reply.
ChunkReplied ==
    /\ ChunkPending
    /\ <<doc_i', chunk_i'>> # <<doc_i, chunk_i>>
    /\ last_call'.kind = "return"

\* The texts after the marker of the lines of a reply that satisfy Numbered,
\* in the order of the lines; the reply is split into lines after its
\* trailing white space has been stripped.
NumberedTexts(reply, Numbered(_)) ==
    LET lines == SelectSeq(StripReply(reply), Numbered)
    IN  [k \in 1..Len(lines) |-> lines[k].body]

\* A leading integer followed by one of the three markers.
LedByMarker(l) == l.digits >= 1 /\ l.punct \in {".", ")", ":"}

\* A leading integer, one of the three markers, white space and then one
\* character at least.
LedByMarkerAndBlank(l) ==
    /\ LedByMarker(l)
    /\ l.gap >= 1
    /\ (l.body # <<>> \/ l.gap >= 2)

\* C23 (as stated): a line of a segmentation reply yields a statement if and
\* only if it starts with an integer followed by one of . ) : ; each such
\* line yields one statement, the text after the marker, every other line
\* none, and the statements keep the order of their lines.
C23_NumberedLinesYieldStatements ==
    [][ ChunkReplied =>
            statements' = statements \o NumberedTexts(last_call'.text, LedByMarker)
      ]_vars

\* C23 (amended): a line yields a statement if and only if it starts with an
\* integer followed by one of . ) : and then by white space and one more
\* character at least; each such line yields one statement, the text after
\* the marker and the white space, every other line none (a numbered line
\* whose text follows the marker directly among them), and the statements
\* keep the order of their lines.
C23_NumberedLinesWithBlankYieldStatements ==
    [][ ChunkReplied =>
            statements' = statements
                            \o NumberedTexts(last_call'.text, LedByMarkerAndBlank)
      ]_vars

\* A reply of two numbered lines has been parsed: the first has its text
\* directly after the marker and gave nothing, the second gave its text.
C23_Witness ==
    /\ last_call = Returned(<<Line(1, ".", 0, TextCsv), Line(1, ")", 1, TextUi)>>)
    /\ statements = <<TextUi>>

\* --------------------------------------------------------------------- C24

\* The validator has returned and nothing has been generated yet.
JustValidated == pc = "generate"

EnvCount ==
    Cardinality({i \in 1..Len(enriched) :
                    enriched[i].context = "Environment-specific"})

ReqCount ==
    Cardinality({i \in 1..Len(enriched) : enriched[i].type = "Requirement"})

\* count of total is less than pct per cent; none of none counts as 0%.
ShareUnder(count, total, pct) ==
    IF total = 0 THEN 0 < pct ELSE 100 * count < pct * total

\* count of total is more than pct per cent.
ShareOver(count, total, pct) ==
    IF total = 0 THEN 0 > pct ELSE 100 * count > pct * total

Interfaces == {i \in 1..Len(enriched) : enriched[i].type = "Interface"}

\* C25: an Interface statement appears in the goals document if and only if
\* its inferred kind is UI or CSV; one whose kind is API never appears there;
\* and every Interface statement, of any kind, appears in the Interfaces list
\* of the context document.
C25_GoalsShowUiAndCsvInterfacesOnly ==
    Projected =>
        \A i \in Interfaces :
            /\ enriched[i].interface_type \in {"UI", "CSV", "API"}
            /\ i \in ShownIn("PM_Input")
                    <=> enriched[i].interface_type \in {"UI", "CSV"}
            /\ enriched[i].interface_type = "API" =>
                    /\ i \notin Shown(PmDoc.interfaces)
                    /\ i \notin Shown(PmDoc.intent)
                    /\ i \notin PmRequirementsShown
            /\ Times(ContextDoc.interfaces, i) = 1
            /\ \A j \in 1..Len(ContextDoc.interfaces) :
                    ContextDoc.interfaces[j].pos = i =>
                        /\ ContextDoc.interfaces[j].id = enriched[i].id
                        /\ ContextDoc.interfaces[j].interface_type
                                = enriched[i].interface_type

\* Two Interface statements were projected, the first of kind API and the
\* second of kind CSV: the goals document shows the second only, the
\* Interfaces list of the context document both.
C25_Witness ==
    /\ pc = "done"
    /\ Len(enriched) = 2
    /\ Interfaces = {1, 2}
    /\ enriched[1].interface_type = "API"
    /\ enriched[2].interface_type = "CSV"
    /\ Shown(PmDoc.interfaces) = {2}
    /\ Shown(ContextDoc.interfaces) = {1, 2}

\* --------------------------------------------------------------------- C26

\* The chunks of all the documents handed to _segment_documents.
RECURSIVE TotalChunks(_)
TotalChunks(docs) ==
    IF docs = <<>> THEN 0
    ELSE Len(_chunk_content(Head(docs).content, SegmentMaxTokens))
            + TotalChunks(Tail(docs))

\* A statement is still to be classified.
StatementPending == pc = "classify" /\ Len(classified) < Len(statements)

\* The last call of the run has been made: classification returns or raises.
ClassificationEnds == pc = "classify" /\ pc' # "classify"

\* The count of the calls when classification ends.
CallsAtEnd == IF pc' = "raised" THEN calls' ELSE calls

\* One call for the pending chunk, then the following chunk; one call for
\* the pending statement, which is not called for again; when segmentation
\* returns, as many calls as chunks.
CallsStepByStep ==
    /\ ChunkPending =>
            /\ calls' = [calls EXCEPT !.chunk = @ + 1]
            /\ <<doc_i', chunk_i'>> = FollowingChunk
    /\ (pc = "segment" /\ pc' = "classify") =>
            /\ calls.chunk = TotalChunks(parsed_docs)
            /\ calls' = calls
    /\ StatementPending =>
            /\ calls' = [calls EXCEPT !.statement = @ + 1]
            /\ pc' = "classify" => Len(classified') = Len(classified) + 1

\* C26: a run makes exactly one inference call per chunk and exactly one per
\* segmented statement, one after the other, and never repeats a failed
\* call; the calls of a run are as many as its chunks plus the statements
\* parsed from the chunks whose call succeeded.
C26_OneCallPerChunkAndPerStatement ==
    [][ /\ CallsStepByStep
        /\ ClassificationEnds =>
                /\ CallsAtEnd.statement = Len(statements)
                /\ CallsAtEnd.chunk + CallsAtEnd.statement
                        = calls.chunk + Len(statements) ]_vars

\* What holds of every run: the calls are made one per chunk and one per
\* statement reached, and a classification that returns has called once for
\* every statement.
C26_OneCallPerChunkAndPerStatementReached ==
    [][ /\ CallsStepByStep
        /\ (ClassificationEnds /\ pc' = "enrich") =>
                calls.statement = Len(statements)
        /\ (ClassificationEnds /\ pc' = "raised") =>
                calls'.statement = Len(classified) + 1 ]_vars

\* Classification raised at the call for the first of two statements, after
\* the calls for two chunks: three calls, one statement never called for.
C26_Witness ==
    /\ pc = "raised"
    /\ Len(statements) = 2
    /\ classified = <<>>
    /\ calls = [chunk |-> 2, statement |-> 1]

\* --------------------------------------------------------------------- C27

\* The metadata of the context document.
Metadata == ContextDoc.project_metadata

\* C27: in every context document the pipeline produces, the metadata's count
\* of Environment-specific statements plus its count of Project-specific
\* statements is its count of all statements, which is the number of
\* enriched statements.
C27_MetadataCountsAddUp ==
    Projected =>
        /\ Metadata.environment_specific + Metadata.project_specific
                = Metadata.total_statements
        /\ Metadata.total_statements = Len(enriched)

\* The total alone: the metadata counts every enriched statement.
C27_MetadataTotalIsEnrichedCount ==
    Projected => Metadata.total_statements = Len(enriched)

\* The context document of a run over one statement whose classification
\* reply gave a context outside the two names: the total is 1, both context
\* counts are 0.
C27_Witness ==
    /\ pc = "done"
    /\ Len(enriched) = 1
    /\ enriched[1].context = OtherContext
    /\ Metadata.total_statements = 1
    /\ Metadata.environment_specific = 0
    /\ Metadata.project_specific = 0

\* --------------------------------------------------------------------- C28

\* Every listing of the three artifacts.
AllListings ==
    OtherListings \cup {ContextDoc.constraints}
        \cup {PmDoc.requirements[c].stmts : c \in 1..Len(PmDoc.requirements)}

\* The listings that show the statement at place i, with its identifier and
\* its text.
ListingsShowing(i) ==
    {listing \in AllListings :
        \E j \in 1..Len(listing) :
            /\ listing[j].pos = i
            /\ listing[j].id = enriched[i].id
            /\ listing[j].statement = enriched[i].statement}

\* C28: no statement is lost by projection: every enriched statement,
\* whatever its type, its context and its inferred fields, appears in one at
\* least of the three artifacts.
C28_EveryStatementAppearsSomewhere ==
    Projected =>
        \A i \in 1..Len(enriched) :
            /\ i \in ShownIn("PM_Input") \cup ShownIn("Context")
                        \cup ShownIn("Architect_Seeds")
            /\ ListingsShowing(i) # {}

\* A Project-specific Design statement and a Constraint whose context is
\* outside the two names were projected: the first appears among the design
\* patterns only, the second among the constraints only.
C28_Witness ==
    /\ pc = "done"
    /\ Len(enriched) = 2
    /\ enriched[1].type = "Design" /\ enriched[1].context = "Project-specific"
    /\ enriched[2].type = "Constraint" /\ enriched[2].context = OtherContext
    /\ ListingsShowing(1) = {SeedsDoc.design_patterns}
    /\ ListingsShowing(2) = {ContextDoc.constraints}

\* --------------------------------------------------------------------- C29

\* The product manager has loaded the context document of this run and found
\* it to be of the new format.
PmReadsContext ==
    /\ pc = "done"
    /\ requirements.loaded
    /\ requirements_format["LaravelProductManager"] = "yaml"

Intents == {i \in 1..Len(enriched) : enriched[i].type = "Intent"}

RecordOfStatement(list, i) ==
    /\ list[i].statement = statements[i]
    /\ list[i].id = [prefix |-> "STMT", num |-> Format03d(i)]

\* C30: classification is one-to-one and keeps the order, whatever the
\* outcomes of the calls: every pass appends the one record of the statement
\* it is at (its text, its ordinal), a failed or fallback classification
\* drops, repeats or moves no statement, and the classified list has one
\* record per segmented statement.
C30_OneRecordPerStatementInOrder ==
    [][ /\ StatementPending =>
              /\ pc' = "classify"
              /\ statements' = statements
              /\ Len(classified') = Len(classified) + 1
              /\ SubSeq(classified', 1, Len(classified)) = classified
              /\ RecordOfStatement(classified', Len(classified'))
        /\ ClassificationEnds =>
              /\ Len(classified') = Len(statements)
              /\ \A i \in 1..Len(classified') : RecordOfStatement(classified', i)
      ]_vars

\* What holds of every run: the records made so far are those of the first
\* statements, in order, and a classification that returns has made one for
\* every statement.
C30_RecordsMadeAreInOrder ==
    /\ Len(classified) <= Len(statements)
    /\ \A i \in 1..Len(classified) : RecordOfStatement(classified, i)
    /\ pc \in {"enrich", "enrich_loop", "validate", "generate", "save", "done"}
            => Len(classified) = Len(statements)

\* The call for the only statement raised and classification raised in its
\* turn: the statement has no record.
C30_Witness ==
    /\ pc = "raised"
    /\ exc = "UnboundLocalError"
    /\ Len(statements) = 1
    /\ classified = <<>>
    /\ last_call.kind = "raise"

====
